---- MODULE Spec2Model ----
(***************************************************************************)
(* A model of filefilter.py (Keypirinha PythonLib): the one-line rule      *)
(* grammar, create_filter and the filter variants it builds, on the        *)
(* Windows platform (IS_WINDOWS, os.sep = "\", os.path = ntpath).          *)
(*                                                                         *)
(* A Python str is a sequence of one-character strings.  Indices and       *)
(* slices keep Python's conventions (0-based, half-open) through Slice,    *)
(* Find and RFind, so that the definitions read like the code.             *)
(***************************************************************************)
EXTENDS Integers, Sequences, FiniteSets, TLC

(***************************************************************************)
(* Characters                                                              *)
(***************************************************************************)
sep == "\\"
altsep == "/"
colon == ":"
curdir == <<".">>
pardir == <<".", ".">>

\* str.lower() / the lower-casing half of ntpath.normcase
LowerMap ==
    [c \in {"A","B","C","D","E","F","G","H","I","J","K","L","M",
            "N","O","P","Q","R","S","T","U","V","W","X","Y","Z"} |->
        CASE c = "A" -> "a" [] c = "B" -> "b" [] c = "C" -> "c" [] c = "D" -> "d"
          [] c = "E" -> "e" [] c = "F" -> "f" [] c = "G" -> "g" [] c = "H" -> "h"
          [] c = "I" -> "i" [] c = "J" -> "j" [] c = "K" -> "k" [] c = "L" -> "l"
          [] c = "M" -> "m" [] c = "N" -> "n" [] c = "O" -> "o" [] c = "P" -> "p"
          [] c = "Q" -> "q" [] c = "R" -> "r" [] c = "S" -> "s" [] c = "T" -> "t"
          [] c = "U" -> "u" [] c = "V" -> "v" [] c = "W" -> "w" [] c = "X" -> "x"
          [] c = "Y" -> "y" [] c = "Z" -> "z"]

LowerLetters == {LowerMap[c] : c \in DOMAIN LowerMap}

LowerChar(c) == IF c \in DOMAIN LowerMap THEN LowerMap[c] ELSE c

\* the regex class \s, on the characters of a one-line rule
IsSpace(c) == c \in {" ", "\t"}

(***************************************************************************)
(* Python str primitives                                                   *)
(***************************************************************************)
\* s[a:b]
Slice(s, a, b) == SubSeq(s, a + 1, b)

\* s[a:]
From(s, a) == SubSeq(s, a + 1, Len(s))

\* s.lower()
Lower(s) == [i \in 1..Len(s) |-> LowerChar(s[i])]

\* s.replace(a, b) for single characters
Replace(s, a, b) == [i \in 1..Len(s) |-> IF s[i] = a THEN b ELSE s[i]]

\* s.find(c, start): the least index >= start that holds c, or -1
Find(s, c, start) ==
    LET hits == {i \in start..(Len(s) - 1) : s[i + 1] = c}
    IN  IF hits = {} THEN -1 ELSE CHOOSE i \in hits : \A j \in hits : i <= j

\* s.rindex(c, 0, end): the greatest index < end that holds c, or -1 where
\* Python raises ValueError ("substring not found"); a negative end counts
\* from the end of s, as in every Python slice
RFind(s, c, end) ==
    LET e1 == IF end < 0 THEN end + Len(s) ELSE end
        stop == IF e1 < 0 THEN 0 ELSE IF e1 > Len(s) THEN Len(s) ELSE e1
        hits == {i \in 0..(stop - 1) : s[i + 1] = c}
    IN  IF hits = {} THEN -1 ELSE CHOOSE i \in hits : \A j \in hits : i >= j

\* s.count(c)
Count(s, c) == Cardinality({i \in 1..Len(s) : s[i] = c})

\* s.startswith(p), s.endswith(p)
StartsWith(s, p) == Len(p) <= Len(s) /\ SubSeq(s, 1, Len(p)) = p

EndsWith(s, p) ==
    Len(p) <= Len(s) /\ SubSeq(s, Len(s) - Len(p) + 1, Len(s)) = p

\* s.lstrip(c)
RECURSIVE LStrip(_, _)
LStrip(s, c) == IF s # <<>> /\ s[1] = c THEN LStrip(Tail(s), c) ELSE s

\* s.split(c): the list of the pieces between the occurrences of c
RECURSIVE Split(_, _)
Split(s, c) ==
    LET i == Find(s, c, 0)
    IN  IF i = -1 THEN <<s>>
        ELSE <<Slice(s, 0, i)>> \o Split(From(s, i + 1), c)

\* c.join(parts)
RECURSIVE Join(_, _)
Join(parts, c) ==
    IF parts = <<>> THEN <<>>
    ELSE IF Len(parts) = 1 THEN parts[1]
    ELSE parts[1] \o <<c>> \o Join(Tail(parts), c)

(***************************************************************************)
(* os.path on Windows (ntpath), as filefilter.py calls it                  *)
(***************************************************************************)
\* os.path.splitdrive(p): <<drive, rest>>; a drive is "x:" or a UNC
\* "\\server\share" mount point
splitdrive(p) ==
    IF Len(p) >= 2
    THEN LET normp == Replace(p, altsep, sep)
         IN  IF Slice(normp, 0, 2) = <<sep, sep>> /\ Slice(normp, 2, 3) # <<sep>>
             THEN LET index == Find(normp, sep, 2)
                      index2 == Find(normp, sep, index + 1)
                  IN  IF index = -1 THEN <<<<>>, p>>
                      ELSE IF index2 = index + 1 THEN <<<<>>, p>>
                      ELSE IF index2 = -1 THEN <<p, <<>>>>
                      ELSE <<Slice(p, 0, index2), From(p, index2)>>
             ELSE IF Slice(normp, 1, 2) = <<colon>>
                  THEN <<Slice(p, 0, 2), From(p, 2)>>
                  ELSE <<<<>>, p>>
    ELSE <<<<>>, p>>

\* len(s) > 0 and s[0] in '\\/', the last line of os.path.isabs
LeadingSep(s) == Len(s) > 0 /\ s[1] \in {sep, altsep}

\* os.path.isabs(s)
isabs(s) ==
    \/ StartsWith(Replace(s, altsep, sep), <<sep, sep, "?", sep>>)
    \/ LeadingSep(splitdrive(s)[2])

\* the component loop of os.path.normpath: drops "" and ".", and folds
\* "x\.." ; kept is the list built so far, rooted says the prefix ends with
\* a separator
RECURSIVE NormComps(_, _, _)
NormComps(comps, kept, rooted) ==
    IF comps = <<>> THEN kept
    ELSE LET c == Head(comps)
             rest == Tail(comps)
         IN  IF c = <<>> \/ c = curdir THEN NormComps(rest, kept, rooted)
             ELSE IF c = pardir
             THEN IF Len(kept) > 0 /\ kept[Len(kept)] # pardir
                  THEN NormComps(rest, SubSeq(kept, 1, Len(kept) - 1), rooted)
                  ELSE IF Len(kept) = 0 /\ rooted
                  THEN NormComps(rest, kept, rooted)
                  ELSE NormComps(rest, Append(kept, c), rooted)
             ELSE NormComps(rest, Append(kept, c), rooted)

\* os.path.normpath once the drive is split off: the prefix has taken the
\* leading separator of a rooted path, the components of the rest are
\* folded and joined again
NormJoin(prefix, rest, rooted) ==
    LET comps == NormComps(Split(IF rooted THEN LStrip(rest, sep) ELSE rest,
                                 sep), <<>>, rooted)
    IN  IF Len(prefix) + Len(comps) = 0 THEN curdir
        ELSE prefix \o Join(comps, sep)

\* os.path.normpath on sd = splitdrive(path)
NormDrive(sd) ==
    NormJoin(IF StartsWith(sd[2], <<sep>>) THEN sd[1] \o <<sep>> ELSE sd[1],
             sd[2], StartsWith(sd[2], <<sep>>))

\* os.path.normpath(path)
normpath(path) ==
    IF \/ StartsWith(path, <<sep, sep, ".", sep>>)
       \/ StartsWith(path, <<sep, sep, "?", sep>>)
    THEN path
    ELSE NormDrive(splitdrive(Replace(path, altsep, sep)))

\* os.path.basename(p): what follows the last separator of the part after
\* the drive
LastPart(rest) ==
    LET cut == {i \in 0..Len(rest) : \A j \in (i + 1)..Len(rest) :
                    rest[j] \notin {sep, altsep}}
    IN  From(rest, CHOOSE k \in cut : \A m \in cut : k <= m)

basename(p) == LastPart(splitdrive(p)[2])

\* os.path.normcase(s)
normcase(s) == Lower(Replace(s, altsep, sep))

(***************************************************************************)
(* EXPRESSION_REGEX                                                        *)
(*     ^\s* (?:([+-])\s+)? (?:\:?([a-z_\:]{2,})\:\s+)? (.+) (?<!\s)\s*$    *)
(* A backtracking match tries the alternatives of each quantifier in its   *)
(* order of preference (greedy: the longest first, an optional group       *)
(* present before absent) and keeps the first that lets the rest of the    *)
(* expression match.  Positions are 0-based offsets into the rule e.       *)
(***************************************************************************)
None == "None"

\* group 2 when it takes no part in the match (None in Python, and as false
\* as the empty string for "if not props"): group 2 itself is never empty
NoProps == <<>>

\* the greatest element of a non-empty set of naturals
Max(S) == CHOOSE x \in S : \A y \in S : x >= y

AllSpace(e, a, b) == \A k \in (a + 1)..b : IsSpace(e[k])

\* [a-z_\:]
IsPropChar(c) == c \in LowerLetters \/ c = "_" \/ c = colon

\* (.+)(?<!\s)\s*$ from offset i: the end offset of group 3, or -1
PatternEnd(e, i) ==
    LET ends == {j \in (i + 1)..Len(e) :
                    ~IsSpace(e[j]) /\ AllSpace(e, j, Len(e))}
    IN  IF ends = {} THEN -1 ELSE Max(ends)

\* (?:\:?([a-z_\:]{2,})\:\s+) from offset i, followed by a pattern: the
\* preferred <<c, len, w>> (c = 1 when the optional leading colon is taken,
\* len the length of group 2, w the length of \s+), or <<>> when the group
\* cannot take part in a match
PropsGroup(e, i) ==
    LET n == Len(e)
        named(c, len) ==
            /\ c = 1 => (i < n /\ e[i + 1] = colon)
            /\ i + c + len + 1 <= n
            /\ \A k \in (i + c + 1)..(i + c + len) : IsPropChar(e[k])
            /\ e[i + c + len + 1] = colon
        ok(c, len, w) ==
            /\ i + c + len + 1 + w <= n
            /\ AllSpace(e, i + c + len + 1, i + c + len + 1 + w)
            /\ PatternEnd(e, i + c + len + 1 + w) # -1
        lens(c) == {len \in 2..(n - i) :
                       named(c, len) /\ \E w \in 1..(n - i) : ok(c, len, w)}
        best(c) == LET len == Max(lens(c))
                   IN  <<c, len, Max({w \in 1..(n - i) : ok(c, len, w)})>>
    IN  IF lens(1) # {} THEN best(1)
        ELSE IF lens(0) # {} THEN best(0)
        ELSE <<>>

\* the rest of the expression after the sign group, from offset i:
\* [ok, props (group 2 or NoProps), pattern (group 3)]
AfterProps(e, i, g) ==
    IF g # <<>>
    THEN [ok |-> TRUE,
          props |-> Slice(e, i + g[1], i + g[1] + g[2]),
          pattern |-> Slice(e, i + g[1] + g[2] + 1 + g[3],
                            PatternEnd(e, i + g[1] + g[2] + 1 + g[3]))]
    ELSE [ok |-> PatternEnd(e, i) # -1, props |-> NoProps,
          pattern |-> Slice(e, i, PatternEnd(e, i))]

AfterSign(e, i) == AfterProps(e, i, PropsGroup(e, i))

\* (?:([+-])\s+)? and what follows it, from offset i
\* the offsets at which the rest may start: behind a sign and its \s+, or
\* at i when the sign group takes no part
SignEnds(e, i) ==
    {i} \cup {j \in (i + 2)..Len(e) :
                 e[i + 1] \in {"+", "-"} /\ AllSpace(e, i + 1, j)}

\* the preferred of the matches ms, each starting the rest at ms.at: the
\* sign group is tried first, its \s+ the longest first
FirstSign(e, i, ms) ==
    IF ms = {}
    THEN [sign |-> None, ok |-> FALSE, props |-> NoProps, pattern |-> <<>>]
    ELSE LET m == CHOOSE x \in ms : \A y \in ms : x.at >= y.at
         IN  [sign |-> IF m.at > i THEN e[i + 1] ELSE None, ok |-> TRUE,
              props |-> m.props, pattern |-> m.pattern]

FromSign(e, i) ==
    FirstSign(e, i, {m \in {[at |-> j] @@ AfterSign(e, j) : j \in SignEnds(e, i)} :
                        m.ok})

\* EXPRESSION_REGEX.match(expression): [ok, sign, props, pattern], the
\* groups 1 to 3 of the match
FirstLead(ms) ==
    IF ms = {}
    THEN [sign |-> None, ok |-> FALSE, props |-> NoProps, pattern |-> <<>>]
    ELSE LET m == CHOOSE x \in ms : \A y \in ms : x.at >= y.at
         IN  [sign |-> m.sign, ok |-> TRUE,
              props |-> m.props, pattern |-> m.pattern]

ExpressionMatch(e) ==
    FirstLead({m \in {[at |-> a] @@ FromSign(e, a) :
                         a \in {b \in 0..Len(e) : AllSpace(e, 0, b)}} : m.ok})

(***************************************************************************)
(* Results.  A call either returns a value or raises: Raise(exc, msg) is   *)
(* the raised exception, Return(v) the returned value.  match returns one  *)
(* of the Python values "True", "False" and "None".                        *)
(***************************************************************************)
Raise(e, m) == [exc |-> e, msg |-> m, val |-> None]

Return(v) == [exc |-> None, msg |-> None, val |-> v]

\* the Python values True and False
PyBool(b) == IF b THEN "True" ELSE "False"

(***************************************************************************)
(* class Filter                                                            *)
(***************************************************************************)
\* Filter.norm_path(path, ispattern)
\* PatternPath without the test of the drive
PatternPathAnyDrive(sd) ==
    IF isabs(sd[2])
    THEN Raise("ValueError", "absolute path in filter")
    ELSE IF sd[2] = <<>>
    THEN Raise("ValueError", "invalid path format")
    ELSE Return(sd[2])

\* the checks on a pattern, on <<drive, path>> = os.path.splitdrive(path)
PatternPath(sd) ==
    IF sd[1] # <<>> \/ isabs(sd[2])
    THEN Raise("ValueError", "absolute path in filter")
    ELSE IF sd[2] = <<>>
    THEN Raise("ValueError", "invalid path format")
    ELSE Return(sd[2])

\* what follows path = os.path.normpath(path)
NormedPath(p, ispattern) ==
    IF ispattern THEN PatternPath(splitdrive(p)) ELSE Return(p)

\* norm_path without os.path.normpath: the path is taken as it is written
norm_path_unnormed(path, ispattern) == NormedPath(path, ispattern)

norm_path(path, ispattern) == NormedPath(normpath(path), ispattern)

\* Filter.norm_case(s), IS_WINDOWS
norm_case(s) == normcase(s)

\* glob.has_magic(s): the regex ([*?[]) is found in s
has_magic(s) == \E i \in 1..Len(s) : s[i] \in {"*", "?", "["}

\* Filter.__init__: the fields every filter object has, to which each
\* variant adds its own; hash_cache = NoHash stands for hash_cache is None
NoHash == <<>>

Filter(kind, inclusive) ==
    [kind |-> kind, inclusive |-> inclusive, hash_cache |-> NoHash]

\* Cased that folds the case whatever the flag is
CasedAlways(s, case_sensitive) == norm_case(s)

(***************************************************************************)
(* class PathTailFilter                                                    *)
(***************************************************************************)
\* if not self.case_sensitive: s = self.norm_case(s)
Cased(s, case_sensitive) == IF case_sensitive THEN s ELSE norm_case(s)

\* LeadSep without its effect: the text is compared as it is
LeadSepForgotten(s) == s

\* if s[0] != os.sep: s = os.sep + s
LeadSep(s) == IF s[1] # sep THEN <<sep>> \o s ELSE s

\* PathTailFilter.__init__ on np, the outcome of self.norm_path(pattern)
TailFilterOf(np, case_sensitive, inclusive) ==
    IF np.exc # None THEN np
    ELSE IF has_magic(np.val) THEN Raise("AssertionError", None)
    ELSE Return(Filter("PathTailFilter", inclusive) @@
             [pattern |-> LeadSep(Cased(np.val, case_sensitive)),
              case_sensitive |-> case_sensitive,
              seps_count |-> Count(LeadSep(Cased(np.val, case_sensitive)), sep)])

\* PathTailFilter.__init__
PathTailFilter(pattern, case_sensitive, inclusive) ==
    TailFilterOf(norm_path(pattern, TRUE), case_sensitive, inclusive)

\* the loop of PathTailFilter.match: pos = path.rindex(os.sep, 0, pos - 1),
\* count times; -1 when rindex raises ValueError
RECURSIVE TailPos(_, _, _)
TailPos(path, pos, count) ==
    IF count = 0 THEN pos
    ELSE LET q == RFind(path, sep, pos - 1)
         IN  IF q = -1 THEN -1 ELSE TailPos(path, q, count - 1)

\* TailCompare that compares without regard to case
TailCompareAnyCase(path, pattern) ==
    Return(PyBool(Len(path) >= Len(pattern) /\ EndsWith(Lower(path), Lower(pattern))))

\* the comparison that ends PathTailFilter.match
TailCompare(path, pattern) ==
    LET delta == Len(path) - Len(pattern)
    IN  IF delta > 0 THEN Return(PyBool(EndsWith(path, pattern)))
        ELSE IF delta = 0 THEN Return(PyBool(path = pattern))
        ELSE Return("False")

\* PathTailFilter.match(path)
\* the else branch of PathTailFilter.match once the loop has left pos
TailFromPos(self, path, pos) ==
    IF pos = -1 THEN Raise("ValueError", "substring not found")
    ELSE TailCompare(LeadSep(Cased(IF pos > 0 THEN From(path, pos) ELSE path,
                                   self.case_sensitive)),
                     self.pattern)

\* PathTailFilter.match on path = self.norm_path(path, ispattern=False)
TailMatchNormed(self, path) ==
    IF self.seps_count = 0 \/ self.seps_count = 1
    THEN TailCompare(<<sep>> \o Cased(basename(path), self.case_sensitive),
                     self.pattern)
    ELSE TailFromPos(self, path, TailPos(path, Len(path), self.seps_count))

TailMatch(self, path) == TailMatchNormed(self, norm_path(path, FALSE).val)

\* the local name path of PathTailFilter.match when delta is computed: the
\* trimmed candidate, with a separator in front; path is the candidate as
\* self.norm_path gave it, and one for which the loop does not raise
TailTrimmed(self, path) ==
    IF self.seps_count = 0 \/ self.seps_count = 1
    THEN <<sep>> \o Cased(basename(path), self.case_sensitive)
    ELSE LET pos == TailPos(path, Len(path), self.seps_count)
         IN  LeadSep(Cased(IF pos > 0 THEN From(path, pos) ELSE path,
                           self.case_sensitive))

\* PathTailFilter.__str__
TailStr(self) ==
    (IF self.inclusive THEN <<"+", " ">> ELSE <<"-", " ">>)
    \o (IF self.case_sensitive THEN <<"c", "a", "s", "e", ":", " ">> ELSE <<>>)
    \o self.pattern

(***************************************************************************)
(* class PathShellFilter                                                   *)
(***************************************************************************)
\* the end of a character class of fnmatch.translate: the offset of the
\* "]" that closes the class opened before offset i, or Len(pat) if none
ClassEnd(pat, i) ==
    LET n == Len(pat)
        j1 == IF i < n /\ pat[i + 1] = "!" THEN i + 1 ELSE i
        j2 == IF j1 < n /\ pat[j1 + 1] = "]" THEN j1 + 1 ELSE j1
        j3 == Find(pat, "]", j2)
    IN  IF j3 = -1 THEN n ELSE j3

\* re.compile(fnmatch.translate(pat)).match(s): "*" is ".*", "?" is ".",
\* "[seq]" and "[!seq]" are character classes (of single characters; the
\* model holds no range "a-z"), every other character is itself; the
\* translation ends with \Z, so the whole of s must match
RECURSIVE fnmatch(_, _)
fnmatch(pat, s) ==
    IF pat = <<>> THEN s = <<>>
    ELSE LET c == Head(pat)
             rest == Tail(pat)
         IN  IF c = "*"
             THEN \E k \in 0..Len(s) : fnmatch(rest, From(s, k))
             ELSE IF c = "?"
             THEN s # <<>> /\ fnmatch(rest, Tail(s))
             ELSE IF c = "[" /\ ClassEnd(pat, 1) < Len(pat)
             THEN LET j == ClassEnd(pat, 1)
                      stuff == Slice(pat, 1, j)
                      neg == stuff[1] = "!"
                      members == {stuff[k] : k \in (IF neg THEN 2 ELSE 1)..Len(stuff)}
                  IN  /\ s # <<>>
                      /\ (s[1] \in members) # neg
                      /\ fnmatch(From(pat, j + 1), Tail(s))
             ELSE s # <<>> /\ s[1] = c /\ fnmatch(rest, Tail(s))

\* PathShellFilter.__init__ on np, the outcome of self.norm_path(pattern)
ShellFilterOf(np, case_sensitive, nodrive, inclusive) ==
    IF np.exc # None THEN np
    ELSE IF ~has_magic(np.val) THEN Raise("AssertionError", None)
    ELSE Return(Filter("PathShellFilter", inclusive) @@
             [pattern |-> Cased(np.val, case_sensitive),
              case_sensitive |-> case_sensitive, nodrive |-> nodrive])

\* PathShellFilter.__init__
PathShellFilter(pattern, case_sensitive, nodrive, inclusive) ==
    ShellFilterOf(norm_path(pattern, TRUE), case_sensitive, nodrive, inclusive)

\* ShellMatch that lets an exclusive filter match nothing
ShellMatchSigned(self, path) ==
    Return(PyBool(self.inclusive /\
                  fnmatch(self.pattern,
                          Cased(norm_path(path, FALSE).val, self.case_sensitive))))

\* ShellMatch that looks at the name of the candidate only
ShellMatchName(self, path) ==
    Return(PyBool(fnmatch(self.pattern,
                          Cased(basename(norm_path(path, FALSE).val),
                                self.case_sensitive))))

\* PathShellFilter.match(path)
ShellMatch(self, path) ==
    Return(PyBool(fnmatch(self.pattern,
                          Cased(norm_path(path, FALSE).val, self.case_sensitive))))

\* PathShellFilter.__str__
ShellStr(self) ==
    LET props == (IF self.case_sensitive THEN <<"c", "a", "s", "e", ":">> ELSE <<>>)
                 \o (IF self.nodrive
                     THEN <<"n", "o", "d", "r", "i", "v", "e", ":">> ELSE <<>>)
    IN  (IF self.inclusive THEN <<"+", " ">> ELSE <<"-", " ">>)
        \o (IF props # <<>> THEN props \o <<" ">> ELSE <<>>)
        \o self.pattern

(***************************************************************************)
(* class PathRegexFilter                                                   *)
(* The regular expressions of the model are built from literal             *)
(* characters, ".", an escaped character "\c", the quantifier "*" and the  *)
(* anchors "^" and "$"; a group or a class that is opened is never closed  *)
(* in this language, and re.compile rejects it.                            *)
(***************************************************************************)
\* re.compile(pattern) succeeds; repeat says the previous item can take "*"
RECURSIVE re_compiles(_, _)
re_compiles(pat, repeat) ==
    IF pat = <<>> THEN TRUE
    ELSE LET c == Head(pat)
         IN  IF c = "*" THEN repeat /\ re_compiles(Tail(pat), FALSE)
             ELSE IF c = "\\" THEN Len(pat) >= 2 /\ re_compiles(From(pat, 2), TRUE)
             ELSE IF c \in {"(", ")", "["} THEN FALSE
             ELSE IF c \in {"^", "$"} THEN re_compiles(Tail(pat), FALSE)
             ELSE re_compiles(Tail(pat), TRUE)

\* re.compile(pattern, flags).match(s): the pattern matches a prefix of s
\* that starts at offset 0; start says no character is consumed yet,
\* ignorecase is re.IGNORECASE
RECURSIVE re_match(_, _, _, _)
re_match(pat, s, start, ignorecase) ==
    IF pat = <<>> THEN TRUE
    ELSE LET c == Head(pat)
             w == IF c = "\\" THEN 2 ELSE 1
             lit == IF c = "\\" THEN pat[2] ELSE c
             same(x) == IF c = "." THEN TRUE
                        ELSE IF ignorecase THEN LowerChar(x) = LowerChar(lit)
                        ELSE x = lit
             starred == Len(pat) > w /\ pat[w + 1] = "*"
         IN  IF c = "^" THEN start /\ re_match(Tail(pat), s, start, ignorecase)
             ELSE IF c = "$" THEN s = <<>> /\ re_match(Tail(pat), s, start, ignorecase)
             ELSE IF starred
             THEN \E k \in 0..Len(s) :
                      /\ \A i \in 1..k : same(s[i])
                      /\ re_match(From(pat, w + 1), From(s, k),
                                  start /\ k = 0, ignorecase)
             ELSE /\ s # <<>>
                  /\ same(s[1])
                  /\ re_match(From(pat, w), Tail(s), FALSE, ignorecase)

\* PathRegexFilter.__init__
PathRegexFilter(pattern, case_sensitive, nodrive, inclusive) ==
    IF ~re_compiles(pattern, FALSE) THEN Raise("ValueError", "invalid regex")
    ELSE Return(Filter("PathRegexFilter", inclusive) @@
             [pattern |-> pattern, case_sensitive |-> case_sensitive,
              nodrive |-> nodrive])

\* if path and path[0] != os.sep: path = os.sep + path
LeadSepIfAny(path) ==
    IF path # <<>> /\ path[1] # sep THEN <<sep>> \o path ELSE path

\* the path PathRegexFilter.match works on, from the normalised path
RegexSubject(self, path) ==
    IF self.nodrive THEN LeadSepIfAny(splitdrive(path)[2]) ELSE path

\* RegexOn that searches: the expression may start at any offset
RegexOnSearch(self, path) ==
    Return(PyBool(\E k \in 0..Len(path) :
                      re_match(self.pattern,
                               Cased(From(path, k), self.case_sensitive),
                               k = 0, ~self.case_sensitive)))

\* the end of PathRegexFilter.match, from "if not path"
RegexOn(self, path) ==
    IF path = <<>> THEN Return("False")
    ELSE Return(PyBool(re_match(self.pattern, Cased(path, self.case_sensitive),
                                TRUE, ~self.case_sensitive)))

\* PathRegexFilter.match(path)
RegexMatch(self, path) ==
    RegexOn(self, RegexSubject(self, norm_path(path, FALSE).val))

\* PathRegexFilter.__str__
RegexStr(self) ==
    (IF self.inclusive THEN <<"+", " ">> ELSE <<"-", " ">>)
    \o <<"r", "e", "g", "e", "x", ":">>
    \o (IF self.case_sensitive THEN <<"c", "a", "s", "e", ":">> ELSE <<>>)
    \o (IF self.nodrive THEN <<"n", "o", "d", "r", "i", "v", "e", ":">> ELSE <<>>)
    \o <<" ">> \o self.pattern

(***************************************************************************)
(* class ExtensionsFilter                                                  *)
(***************************************************************************)
\* filter(None, re.split(r'[\s\;]+', pattern)): the maximal runs of
\* characters that are neither whitespace nor ";", in order; cur is the run
\* being read
RECURSIVE SplitExt(_, _)
SplitExt(s, cur) ==
    IF s = <<>> THEN (IF cur = <<>> THEN <<>> ELSE <<cur>>)
    ELSE IF IsSpace(Head(s)) \/ Head(s) = ";"
    THEN (IF cur = <<>> THEN <<>> ELSE <<cur>>) \o SplitExt(Tail(s), <<>>)
    ELSE SplitExt(Tail(s), Append(cur, Head(s)))

\* ExtensionsFilter.__init__
ExtensionsFilter(pattern, case_sensitive, inclusive) ==
    LET p1 == IF case_sensitive THEN pattern ELSE norm_case(pattern)
        toks == SplitExt(p1, <<>>)
    IN  IF \E i \in 1..Len(p1) : p1[i] = sep
        THEN Raise("ValueError", "invalid or empty ext filter")
        ELSE Return(Filter("ExtensionsFilter", inclusive) @@
                 [case_sensitive |-> case_sensitive,
                  ext |-> {toks[i] : i \in 1..Len(toks)}])

\* ExtOn that takes a name that is a suffix, whole
ExtOnWhole(self, name) ==
    Return(PyBool(\E ext \in self.ext : EndsWith(name, ext)))

\* the loop of ExtensionsFilter.match over self.ext, on the file name
ExtOn(self, name) ==
    IF self.ext = {} THEN Return("False")
    ELSE Return(PyBool(\E ext \in self.ext :
                           Len(name) > Len(ext) /\ EndsWith(name, ext)))

\* ExtensionsFilter.match(path_or_entry), for a path string
ExtMatch(self, path) ==
    ExtOn(self, Cased(basename(path), self.case_sensitive))

\* the orders in which iterating the frozenset self.ext can give its elements
ExtOrders(self) ==
    {o \in [1..Cardinality(self.ext) -> self.ext] :
        \A i, j \in DOMAIN o : i # j => o[i] # o[j]}

\* ExtensionsFilter.__str__, with the iteration order of self.ext
ExtStr(self, order) ==
    (IF self.inclusive THEN <<"+", " ">> ELSE <<"-", " ">>)
    \o <<"e", "x", "t", ":">>
    \o (IF self.case_sensitive THEN <<"c", "a", "s", "e", ":">> ELSE <<>>)
    \o <<" ">> \o Join(order, " ")

(***************************************************************************)
(* class WinAttrFilter.  A bitmask of file attributes is the set of the    *)
(* flags that are set in it.                                               *)
(***************************************************************************)
\* WIN_FILE_ATTRIBUTE, in the order of the OrderedDict
WIN_FILE_ATTRIBUTE ==
    << <<<<"d", "i", "r", "e", "c", "t", "o", "r", "y">>, "DIRECTORY">>,
       <<<<"d", "i", "r">>, "DIRECTORY">>,
       <<<<"h", "i", "d", "d", "e", "n">>, "HIDDEN">>,
       <<<<"s", "y", "m", "l", "i", "n", "k">>, "REPARSE_POINT">>,
       <<<<"r", "e", "p", "a", "r", "s", "e", "_", "p", "o", "i", "n", "t">>, "REPARSE_POINT">>,
       <<<<"c", "o", "m", "p", "r", "e", "s", "s", "e", "d">>, "COMPRESSED">>,
       <<<<"c", "o", "m", "p">>, "COMPRESSED">>,
       <<<<"a", "r", "c", "h", "i", "v", "e">>, "ARCHIVE">>,
       <<<<"a", "r", "c", "h">>, "ARCHIVE">>,
       <<<<"a", "r", "c">>, "ARCHIVE">>,
       <<<<"e", "n", "c", "r", "y", "p", "t", "e", "d">>, "ENCRYPTED">>,
       <<<<"r", "e", "a", "d", "o", "n", "l", "y">>, "READONLY">>,
       <<<<"r", "o">>, "READONLY">>,
       <<<<"s", "y", "s", "t", "e", "m">>, "SYSTEM">>,
       <<<<"s", "y", "s">>, "SYSTEM">> >>

AttrNames == {WIN_FILE_ATTRIBUTE[i][1] : i \in DOMAIN WIN_FILE_ATTRIBUTE}

AttrFlag(name) ==
    WIN_FILE_ATTRIBUTE[CHOOSE i \in DOMAIN WIN_FILE_ATTRIBUTE :
                           WIN_FILE_ATTRIBUTE[i][1] = name][2]

\* str.split(): the maximal runs of non-whitespace characters
RECURSIVE SplitWs(_, _)
SplitWs(s, cur) ==
    IF s = <<>> THEN (IF cur = <<>> THEN <<>> ELSE <<cur>>)
    ELSE IF IsSpace(Head(s))
    THEN (IF cur = <<>> THEN <<>> ELSE <<cur>>) \o SplitWs(Tail(s), <<>>)
    ELSE SplitWs(Tail(s), Append(cur, Head(s)))

\* the loop of WinAttrFilter.__init__ when every name is taken as desired
AttrMasksAllDesired(toks, desired, not_desired) ==
    IF \E i \in DOMAIN toks : LStrip(toks[i], "!") \notin AttrNames
    THEN Raise("ValueError", "unknown file attribute")
    ELSE Return([desired |-> {AttrFlag(LStrip(toks[i], "!")) : i \in DOMAIN toks},
                 not_desired |-> not_desired])

\* the loop of WinAttrFilter.__init__ over the attribute names: the masks
\* [desired, not_desired], or an unknown name
RECURSIVE AttrMasks(_, _, _)
AttrMasks(toks, desired, not_desired) ==
    IF toks = <<>> THEN Return([desired |-> desired, not_desired |-> not_desired])
    ELSE LET t == Head(toks)
             want == t[1] # "!"
             name == IF want THEN t ELSE LStrip(t, "!")
         IN  IF name \notin AttrNames
             THEN Raise("ValueError", "unknown file attribute")
             ELSE IF want
             THEN AttrMasks(Tail(toks), desired \cup {AttrFlag(name)}, not_desired)
             ELSE AttrMasks(Tail(toks), desired, not_desired \cup {AttrFlag(name)})

\* WinAttrFilter.__init__
WinAttrFilter(pattern, match_all, inclusive) ==
    LET m == AttrMasks(SplitWs(Lower(pattern), <<>>), {}, {})
    IN  IF m.exc # None THEN m
        ELSE IF m.val.desired = {} /\ m.val.not_desired = {}
        THEN Raise("ValueError", "empty attr or attr_all filter")
        ELSE IF m.val.desired \cap m.val.not_desired # {}
        THEN Raise("ValueError", "colliding attribute(s)")
        ELSE Return(Filter("WinAttrFilter", inclusive) @@
                 [match_all |-> match_all, desired_attr |-> m.val.desired,
                  not_desired_attr |-> m.val.not_desired])

\* what reading the attributes of a candidate gives: its bitmask, or a
\* failure (OSError from stat(), INVALID_FILE_ATTRIBUTES from
\* GetFileAttributesW)
Readable(bits) == [readable |-> TRUE, bits |-> bits]

Unreadable == [readable |-> FALSE, bits |-> {}]

\* AttrMatch that takes the attributes as they were read, a name with a
\* leading "." not counted as hidden
AttrMatchAsRead(self, path, file_attr) ==
    IF ~file_attr.readable THEN Return("None")
    ELSE IF self.match_all
    THEN Return(PyBool(/\ file_attr.bits \cap self.desired_attr = self.desired_attr
                       /\ file_attr.bits \cap self.not_desired_attr = {}))
    ELSE IF file_attr.bits \cap self.desired_attr # {} THEN Return("Truthy")
    ELSE Return(PyBool(/\ self.not_desired_attr # {}
                       /\ file_attr.bits \cap self.not_desired_attr # self.not_desired_attr))

\* WinAttrFilter.match(path_or_entry): path is the path string (or the path
\* of the entry), file_attr what reading its attributes gives.  A non-zero
\* int that "match or ..." returns is "Truthy".
AttrMatch(self, path, file_attr) ==
    LET fa == IF "HIDDEN" \notin file_attr.bits /\ path[1] = "."
              THEN file_attr.bits \cup {"HIDDEN"} ELSE file_attr.bits
        match == fa \cap self.desired_attr
        not_match == fa \cap self.not_desired_attr
    IN  IF ~file_attr.readable THEN Return("None")
        ELSE IF "HIDDEN" \notin file_attr.bits /\ path = <<>>
        THEN Raise("IndexError", "string index out of range")
        ELSE IF self.match_all
        THEN Return(PyBool(match = self.desired_attr /\ not_match = {}))
        ELSE IF match # {} THEN Return("Truthy")
        ELSE Return(PyBool(self.not_desired_attr # {}
                           /\ not_match # self.not_desired_attr))

\* the loop of WinAttrFilter.__str__ over WIN_FILE_ATTRIBUTE from entry i:
\* the names of the flags still in desired or in not_desired
RECURSIVE AttrStrNames(_, _, _)
AttrStrNames(i, desired, not_desired) ==
    IF i > Len(WIN_FILE_ATTRIBUTE) THEN <<>>
    ELSE LET name == WIN_FILE_ATTRIBUTE[i][1]
             flag == WIN_FILE_ATTRIBUTE[i][2]
         IN  IF flag \in desired
             THEN <<" ">> \o name \o AttrStrNames(i + 1, desired \ {flag}, not_desired)
             ELSE IF flag \in not_desired
             THEN <<" ", "!">> \o name
                  \o AttrStrNames(i + 1, desired, not_desired \ {flag})
             ELSE AttrStrNames(i + 1, desired, not_desired)

\* WinAttrFilter.__str__
AttrStr(self) ==
    (IF self.inclusive THEN <<"+", " ">> ELSE <<"-", " ">>)
    \o (IF self.match_all
        THEN <<"a", "t", "t", "r", "_", "a", "l", "l", ":">>
        ELSE <<"a", "t", "t", "r", ":">>)
    \o AttrStrNames(1, self.desired_attr, self.not_desired_attr)

(***************************************************************************)
(* __hash__ and __eq__.  hash() of a tuple is the tuple: two hashes are    *)
(* equal exactly when the hashed tuples are.                               *)
(***************************************************************************)
\* the tuple that __hash__ hashes; PathRegexFilter.__hash__ reads
\* self.__class__.name, an attribute no class has
HashTuple(self) ==
    CASE self.kind = "PathRegexFilter" ->
            Raise("AttributeError", "type object has no attribute 'name'")
      [] self.kind = "PathTailFilter" ->
            Return(<<self.kind, self.inclusive, self.case_sensitive,
                     self.pattern, self.seps_count>>)
      [] self.kind = "PathShellFilter" ->
            Return(<<self.kind, self.inclusive, self.case_sensitive,
                     self.pattern, self.nodrive>>)
      [] self.kind = "ExtensionsFilter" ->
            Return(<<self.inclusive, self.ext>>)
      [] self.kind = "WinAttrFilter" ->
            Return(<<self.inclusive, self.match_all, self.desired_attr,
                     self.not_desired_attr>>)

\* __hash__: the value returned (or the exception raised)
Hash(self) ==
    IF self.hash_cache # NoHash THEN Return(self.hash_cache) ELSE HashTuple(self)

\* __eq__ of every variant: hash(self) == hash(other) for an instance of the
\* same class; NotImplemented for another object, and then == is False
Eq(self, other) ==
    IF other.kind = self.kind
    THEN IF Hash(self).exc # None THEN Hash(self)
         ELSE IF Hash(other).exc # None THEN Hash(other)
         ELSE Return(PyBool(Hash(self).val = Hash(other).val))
    ELSE Return("False")

(***************************************************************************)
(* create_filter                                                           *)
(***************************************************************************)
\* the tags of the property list
Tag(name) ==
    CASE name = "re" -> <<"r", "e">>
      [] name = "regex" -> <<"r", "e", "g", "e", "x">>
      [] name = "attr" -> <<"a", "t", "t", "r">>
      [] name = "attr_all" -> <<"a", "t", "t", "r", "_", "a", "l", "l">>
      [] name = "case" -> <<"c", "a", "s", "e">>
      [] name = "ext" -> <<"e", "x", "t">>
      [] name = "nodrive" -> <<"n", "o", "d", "r", "i", "v", "e">>

KnownTags == {Tag(n) : n \in {"re", "regex", "attr", "attr_all", "case", "ext", "nodrive"}}

\* props.lower().split(':'), () when group 2 did not take part in the match
PropList(m) == IF m.props = NoProps THEN <<>> ELSE Split(Lower(m.props), colon)

\* Has that looks at the first tag only
HasFirst(props, tags) == props # <<>> /\ props[1] \in tags

\* `name in props`, for any of the names in tags
Has(props, tags) == \E i \in 1..Len(props) : props[i] \in tags

\* InvalidProperty that lets every tag pass
InvalidPropertyNever(props) == FALSE

\* the loop over props: some prop is neither empty nor a known tag
InvalidProperty(props) ==
    \E i \in 1..Len(props) : props[i] # <<>> /\ props[i] \notin KnownTags

\* KindCount that knows regex by its long name only
KindCountLongName(props) ==
    Cardinality({k \in {"regex", "attr", "attr_all", "ext"} : Has(props, {Tag(k)})})

\* sum((is_regex, is_attr_or, is_attr_and, is_ext))
KindCount(props) ==
    Cardinality({k \in {"regex", "attr", "attr_all", "ext"} :
        Has(props, IF k = "regex" THEN {Tag("re"), Tag("regex")} ELSE {Tag(k)})})

\* "if pattern and glob.has_magic(pattern)", on the pattern without drive
IsShellPattern(pattern) == pattern # <<>> /\ has_magic(pattern)

\* create_filter once the expression has matched, with inclusive, the list
\* props and the pattern taken from the groups of the match
CreateFrom(inclusive, props, pattern) ==
    LET is_regex == Has(props, {Tag("re"), Tag("regex")})
        is_attr_or == Has(props, {Tag("attr")})
        is_attr_and == Has(props, {Tag("attr_all")})
        is_ext == Has(props, {Tag("ext")})
        is_nodrive == Has(props, {Tag("nodrive")})
        is_case_sensitive == Has(props, {Tag("case")})
    IN  IF IsSpace(pattern[1]) \/ IsSpace(pattern[Len(pattern)])
        THEN Raise("AssertionError", None)
        ELSE IF InvalidProperty(props) THEN Raise("ValueError", "invalid property")
        ELSE IF KindCount(props) > 1
        THEN Raise("ValueError", "invalid mix of filter properties")
        ELSE IF is_ext THEN ExtensionsFilter(pattern, is_case_sensitive, inclusive)
        ELSE IF is_attr_or \/ is_attr_and
        THEN WinAttrFilter(pattern, is_attr_and, inclusive)
        ELSE IF is_regex
        THEN PathRegexFilter(pattern, is_case_sensitive, is_nodrive, inclusive)
        ELSE IF IsShellPattern(splitdrive(pattern)[2])
        THEN PathShellFilter(pattern, is_case_sensitive, is_nodrive, inclusive)
        ELSE PathTailFilter(pattern, is_case_sensitive, inclusive)

\* CreateMatched that does not read the sign
CreateMatchedUnsigned(rem) ==
    IF ~rem.ok THEN Raise("ValueError", "invalid filter expression")
    ELSE CreateFrom(TRUE, PropList(rem), rem.pattern)

\* create_filter on rem = EXPRESSION_REGEX.match(expression)
CreateMatched(rem) ==
    IF ~rem.ok THEN Raise("ValueError", "invalid filter expression")
    ELSE CreateFrom(rem.sign # "-", PropList(rem), rem.pattern)

\* create_filter(expression): the filter, or the exception raised
create_filter(expression) == CreateMatched(ExpressionMatch(expression))

\* filter.match(path), by the class of the filter
Match(self, path, file_attr) ==
    CASE self.kind = "PathTailFilter" -> TailMatch(self, path)
      [] self.kind = "PathShellFilter" -> ShellMatch(self, path)
      [] self.kind = "PathRegexFilter" -> RegexMatch(self, path)
      [] self.kind = "ExtensionsFilter" -> ExtMatch(self, path)
      [] self.kind = "WinAttrFilter" -> AttrMatch(self, path, file_attr)

\* str(filter), by the class of the filter; order is the iteration order of
\* the suffix set of an extension filter
Str(self, order) ==
    CASE self.kind = "PathTailFilter" -> TailStr(self)
      [] self.kind = "PathShellFilter" -> ShellStr(self)
      [] self.kind = "PathRegexFilter" -> RegexStr(self)
      [] self.kind = "ExtensionsFilter" -> ExtStr(self, order)
      [] self.kind = "WinAttrFilter" -> AttrStr(self)

(***************************************************************************)
(* The inputs of the model: rules (the text given to create_filter) and    *)
(* candidates (the paths given to match, with what reading their file      *)
(* attributes gives).                                                      *)
(***************************************************************************)
\* the longest property list, in tags, of a generated rule
MaxTags == 2

\* the greatest number of "foo" directories above the tail of a candidate
MaxDepth == 2

\* the tags a generated property list is made of: the seven tags of
\* create_filter, two unknown tags and the empty tag
TagPool ==
    KnownTags \cup {<<"f", "o", "o">>, <<"x">>, <<>>}

\* the sequences of at most n elements of S
RECURSIVE SeqsUpTo(_, _)
SeqsUpTo(S, n) ==
    IF n = 0 THEN {<<>>}
    ELSE LET shorter == SeqsUpTo(S, n - 1)
         IN  shorter \cup {Append(q, x) : q \in {r \in shorter : Len(r) = n - 1}, x \in S}

TagLists == SeqsUpTo(TagPool, MaxTags)

Signs == {<<>>, <<"+", " ">>, <<"-", " ">>}

\* "tag:tag: " for a non-empty list of tags
PropText(tags) == IF tags = <<>> THEN <<>> ELSE Join(tags, colon) \o <<colon, " ">>

\* the rule "sign props pattern"
RuleText(sign, tags, pattern) == sign \o PropText(tags) \o pattern

\* a pattern that the variant named by a property list can compile
PatternFor(tags) ==
    IF Has(tags, {Tag("attr"), Tag("attr_all")}) THEN <<"d", "i", "r">>
    ELSE IF Has(tags, {Tag("ext")}) THEN <<".", "D", "o", "c">>
    ELSE IF Has(tags, {Tag("re"), Tag("regex")}) THEN <<"T", ".", "s", "t">>
    ELSE <<"T", "?", "s", "t">>

\* a rule as it is put together: a sign, a list of tags and a pattern;
\* written says the text is given as a whole, in pattern
Parts(sign, tags, pattern) ==
    [sign |-> sign, tags |-> tags, pattern |-> pattern, written |-> FALSE]

Written(e) == [sign |-> <<>>, tags |-> <<>>, pattern |-> e, written |-> TRUE]

\* the text of a rule
RuleOf(p) == RuleText(p.sign, p.tags, p.pattern)

\* every sign and every property list, with a pattern for its variant and
\* with a wildcard-free pattern
GrammarRules ==
    UNION {{Parts(sg, tags, pat) :
               sg \in Signs,
               pat \in {PatternFor(tags), <<"d", "i", "r", "/", "T", "e", "s", "t">>}} :
           tags \in TagLists}

\* path, suffix and attribute patterns, for the rules without a regex tag
Patterns ==
    {<<"t", "e", "s", "t">>, <<"D", "i", "r", "/", "T", "e", "s", "t">>,
     <<"d", "i", "r", "\\", "t", "e", "s", "t", "\\">>,
     <<".", "/", "a", "/", ".", ".", "/", "t", "e", "s", "t">>,
     <<"/", "t", "e", "s", "t">>, <<"c", ":", "/", "t", "e", "s", "t">>,
     <<"c", ":", "t", "e", "s", "t">>,
     <<"\\", "\\", "s", "e", "r", "v", "e", "r", "\\", "s", "h", "a", "r", "e", "\\", "d", "i", "r">>,
     <<"\\", "\\", "?", "\\", "c", ":", "\\", "t", "e", "s", "t">>,
     <<"t", "?", "s", "t">>,
     <<"*", "/", "d", "i", "r", "/", "t", "?", "s", "t">>,
     <<"d", "i", "r", "/", "*">>, <<"[", "t", "d", "]", "e", "s", "t">>,
     <<"a", "[", "b">>, <<"*", "/", ".", ".">>, <<"c", ":", "*">>,
     <<".", "b", "a", "k", ";", ".", "T", "m", "p">>, <<";">>,
     <<".", "b", "a", "k", " ", ".", "b", "a", "k">>,
     <<"d", "i", "r", " ", "!", "h", "i", "d", "d", "e", "n">>,
     <<"r", "o", " ", "D", "i", "r">>,
     <<"d", "i", "r", " ", "!", "d", "i", "r", "e", "c", "t", "o", "r", "y">>,
     <<"h", "i", "d", "d", "e", "n">>,
     <<"f", "o", "o">>, <<"!">>}

\* regular expressions, for the rules with a regex tag
RegexPatterns ==
    {<<".", "*", "t", ".", "s", "t", ".", "*">>,
     <<".", "*", "T", ".", "s", "t", "\\", ".", "d", "o", "c">>,
     <<"t", ".", "s", "t">>, <<"^", "\\", "\\", "d", "i", "r">>,
     <<"/", "t", "e", "s", "t">>, <<"c", ":", "/", "t", "e", "s", "t">>,
     <<"t", "e", "s", "t", "$">>, <<"*", "x">>, <<"x", "\\">>,
     <<"a", "[", "b">>, <<"(">>}

PatternProps ==
    {<<>>, <<Tag("case")>>, <<Tag("nodrive")>>, <<Tag("ext")>>,
     <<Tag("ext"), Tag("case")>>, <<Tag("attr")>>, <<Tag("attr_all")>>}

RegexProps ==
    {<<Tag("regex")>>, <<Tag("re"), Tag("case")>>, <<Tag("regex"), Tag("nodrive")>>}

PatternRules ==
    {Parts(sg, tags, pat) :
        sg \in {<<>>, <<"-", " ">>}, tags \in PatternProps, pat \in Patterns}
    \cup
    {Parts(sg, tags, pat) :
        sg \in {<<>>, <<"-", " ">>}, tags \in RegexProps, pat \in RegexPatterns}

\* rules that the grammar reads in a way of its own
OddRules ==
    {<<>>, <<" ">>, <<" ", "t", "e", "s", "t", " ">>,
     <<"-", "t", "e", "s", "t">>, <<"+", "t", "e", "s", "t">>, <<"-", " ">>,
     <<"-", "	", "t", "e", "s", "t">>, <<"-", " ", " ", "t", "e", "s", "t">>,
     <<" ", "-", " ", "t", "e", "s", "t">>, <<"-">>, <<"-", " ", "-">>,
     <<"+", " ">>,
     <<":", "c", "a", "s", "e", ":", " ", "t", "e", "s", "t">>,
     <<"c", "a", "s", "e", ":", ":", " ", "t", "e", "s", "t">>,
     <<"C", "a", "s", "e", ":", " ", "t", "e", "s", "t">>,
     <<"c", "a", "s", "e", ":", "t", "e", "s", "t">>,
     <<"c", "a", "s", "e", " ", ":", " ", "t", "e", "s", "t">>,
     <<"c", "a", "s", "e", ":", " ", " ", "t", "e", "s", "t">>,
     <<"x", ":", " ", "y">>, <<"_", ":", " ", "y">>,
     <<"a", ":", "b", ":", " ", "t", "e", "s", "t">>,
     <<"e", "x", "t", ":", " ">>, <<"-", " ", "e", "x", "t", ":", " ">>,
     <<"r", "e", "g", "e", "x", ":", " ">>,
     <<"+", " ", "-", " ", "t", "e", "s", "t">>,
     <<"-", " ", "+", " ", "t", "e", "s", "t">>,
     <<"c", "a", "s", "e", ":", " ", "-", " ", "t", "e", "s", "t">>}

Rules == GrammarRules \cup PatternRules \cup {Written(e) : e \in OddRules}

\* the candidates asked of the filters built from Rules
Probes ==
    {<<"t", "e", "s", "t">>,
     <<"c", ":", "\\", "f", "o", "o", "\\", "d", "i", "r", "\\", "T", "e", "S", "t">>,
     <<"d", "i", "r", "/", "t", "e", "s", "t", ".", "d", "o", "c">>,
     <<".", "b", "a", "k">>, <<"a", "[", "b">>,
     <<"c", ":", "\\", "f", "o", "o", "\\", ".", "g", "i", "t">>,
     <<"h", "e", "l", "l", "o", " ", "t", "e", "s", "t">>,
     <<"h", "e", "l", "l", "o", " ", "t", "e", "s", "t", " ", "w", "o", "r", "l", "d">>}

\* the attribute bitmasks read for a candidate of an attribute filter
AttrReads ==
    {Unreadable, Readable({}), Readable({"DIRECTORY"}), Readable({"HIDDEN"}),
     Readable({"DIRECTORY", "READONLY"})}

\* what reading the attributes gives for the filters that never read them
NotRead == Readable({})

\* the rules whose filters are asked about the generated candidates
TailPatterns ==
    {<<"t", "e", "s", "t">>, <<"T", "e", "s", "t">>,
     <<"d", "i", "r", "/", "t", "e", "s", "t">>,
     <<"D", "i", "r", "/", "T", "e", "s", "t">>,
     <<"f", "o", "o", "/", "d", "i", "r", "/", "t", "e", "s", "t">>,
     <<"d", "i", "r", "/", ".", ".", "/", "t", "e", "s", "t">>}

PathRules ==
    {Parts(sg, tags, pat) :
        sg \in {<<>>, <<"-", " ">>}, tags \in {<<>>, <<Tag("case")>>},
        pat \in TailPatterns}
    \cup
    {Parts(<<>>, <<>>, <<"t", "?", "s", "t">>),
     Parts(<<>>, <<>>, <<"*", "/", "d", "i", "r", "/", "t", "?", "s", "t">>),
     Parts(<<>>, <<>>, <<"d", "i", "r", "/", "*">>),
     Parts(<<"-", " ">>, <<>>, <<"*", "/", "d", "i", "r", "/", "*">>),
     Parts(<<>>, <<Tag("nodrive")>>,
           <<"*", "/", "d", "i", "r", "/", "t", "e", "s", "t", "*">>),
     Parts(<<>>, <<Tag("regex")>>, <<".", "*", "t", ".", "s", "t", ".", "*">>),
     Parts(<<"-", " ">>, <<Tag("regex")>>, <<"t", ".", "s", "t">>),
     Parts(<<>>, <<Tag("regex"), Tag("nodrive")>>, <<"\\", "\\", "d", "i", "r">>),
     Parts(<<>>, <<Tag("regex"), Tag("case")>>,
           <<".", "*", "T", ".", "s", "t", "\\", ".", "d", "o", "c">>),
     Parts(<<>>, <<Tag("ext")>>, <<".", "d", "o", "c">>),
     Parts(<<"-", " ">>, <<Tag("ext"), Tag("case")>>,
           <<".", "D", "o", "c", ";", "s", "t">>),
     Parts(<<>>, <<Tag("case")>>, <<"T", "?", "s", "t">>),
     Parts(<<>>, <<>>, <<"*", "/", "D", "i", "r", "/", "T", "?", "s", "t">>),
     Parts(<<>>, <<Tag("nodrive")>>, <<"d", "i", "r", "/", "*">>),
     Parts(<<>>, <<Tag("nodrive")>>, <<"t", "?", "s", "t">>),
     Parts(<<>>, <<Tag("regex")>>,
           <<".", "*", "T", ".", "s", "t", "\\", ".", "d", "o", "c">>),
     Parts(<<>>, <<Tag("ext")>>, <<".", "D", "o", "c", ";", "t", "e", "s", "t">>)}

\* a generated candidate: a prefix, at most MaxDepth directories "foo", an
\* optional parent directory, a name and an optional trailing separator
Prefixes ==
    {<<>>, <<"\\">>, <<"c", ":">>, <<"c", ":", "\\">>, <<"D", ":", "/">>,
     <<"\\", "\\", "s", "e", "r", "v", "e", "r", "\\", "s", "h", "a", "r", "e", "\\">>}

Parents ==
    {<<>>, <<"d", "i", "r", "\\">>, <<"_", "d", "i", "r", "\\">>,
     <<"D", "i", "r", "/">>, <<"d", "i", "r", "/">>,
     <<"d", "i", "r", "/", "f", "o", "o", "/">>}

Names ==
    {<<"t", "e", "s", "t">>, <<"T", "e", "S", "t">>,
     <<"t", "e", "s", "t", "t">>, <<"x", "t", "e", "s", "t">>,
     <<"t", "s", "t">>, <<"t", "e", "s", "t", ".", "d", "o", "c">>,
     <<"t", "E", "s", "t", ".", "D", "o", "c">>, <<".", "d", "o", "c">>}

RECURSIVE Foos(_)
Foos(n) == IF n = 0 THEN <<>> ELSE <<"f", "o", "o", sep>> \o Foos(n - 1)

PathCandidates ==
    {pre \o Foos(d) \o par \o name \o trail :
        pre \in Prefixes, d \in 0..MaxDepth, par \in Parents, name \in Names,
        trail \in {<<>>, <<sep>>}}

(***************************************************************************)
(* The state: one rule is compiled by create_filter, and the filter it     *)
(* gives is then used: asked about a candidate, rendered by str(), the     *)
(* rendering compiled again, the two filters compared, the filter hashed.  *)
(* Six specifications use the filter, or one of its functions, in six     *)
(* ways.                                                                   *)
(***************************************************************************)
VARIABLES
    parts,      \* how the rule is put together: [sign, tags, pattern, written]
    rule,       \* the text given to create_filter
    made,       \* what create_filter(rule) did: [exc, msg, val], val the filter
    cand,       \* the candidate of the last match call: [path, file_attr]
    res,        \* what the last match call did: [exc, msg, val]
    text,       \* str(filter), once taken
    other,      \* what create_filter(text) did
    eqres,      \* what filter == other did
    hres,       \* what the last hash(filter) did
    threads,    \* the calls of hash(filter) that run side by side, one for
                \* each thread: [pc, computed, out]
    IS_WINDOWS  \* os.name == 'nt': the platform the module was loaded on

vars == <<parts, rule, made, cand, res, text, other, eqres, hres, threads, IS_WINDOWS>>

\* a call that has not been made
NotCalled == [exc |-> "not called", msg |-> None, val |-> None]

NoCand == [path |-> <<>>, file_attr |-> NotRead]

NoText == <<>>

\* the threads that call hash(filter) side by side
Threads == {1, 2}

\* no thread has called hash yet
NoThreads == [t \in Threads |-> [pc |-> "idle", computed |-> NoHash, out |-> NotCalled]]

Called(r) == r.exc # "not called"

Returned(r) == r.exc = None

Init ==
    /\ parts = Written(<<>>)
    /\ rule = <<>>
    /\ made = NotCalled
    /\ cand = NoCand
    /\ res = NotCalled
    /\ text = NoText
    /\ other = NotCalled
    /\ eqres = NotCalled
    /\ hres = NotCalled
    /\ threads = NoThreads
    /\ IS_WINDOWS = TRUE

\* made = create_filter(expression), expression the text of the rule p
Create(p) ==
    /\ ~Called(made)
    /\ parts' = p
    /\ rule' = RuleOf(p)
    /\ made' = create_filter(RuleOf(p))
    /\ UNCHANGED <<cand, res, text, other, eqres, hres, threads, IS_WINDOWS>>

\* DoMatch that writes a field of the filter: the inclusive flag
DoMatchWrites(path, file_attr) ==
    /\ Returned(made)
    /\ ~Called(res)
    /\ cand' = [path |-> path, file_attr |-> file_attr]
    /\ res' = Match(made.val, path, file_attr)
    /\ made' = [made EXCEPT !.val.inclusive = ~@]
    /\ UNCHANGED <<parts, rule, text, other, eqres, hres, threads, IS_WINDOWS>>

\* res = filter.match(path); match writes no field of the filter
DoMatch(path, file_attr) ==
    /\ Returned(made)
    /\ ~Called(res)
    /\ cand' = [path |-> path, file_attr |-> file_attr]
    /\ res' = Match(made.val, path, file_attr)
    /\ UNCHANGED <<parts, rule, made, text, other, eqres, hres, threads, IS_WINDOWS>>

CreateFilter == ~Called(made) /\ \E p \in Rules : Create(p)

MatchCall ==
    /\ Returned(made)
    /\ ~Called(res)
    /\ \E path \in Probes :
           \E fa \in (IF made.val.kind = "WinAttrFilter"
                      THEN AttrReads ELSE {NotRead}) :
               DoMatch(path, fa)

Next == CreateFilter \/ MatchCall

\* a rule is compiled and the filter asked about a candidate
Spec == Init /\ [][Next]_vars

\* the filters of PathRules, asked about the generated candidates
CreatePathFilter == ~Called(made) /\ \E p \in PathRules : Create(p)

MatchPath ==
    /\ Returned(made)
    /\ ~Called(res)
    /\ \E path \in PathCandidates : DoMatch(path, NotRead)

NextPaths == CreatePathFilter \/ MatchPath

SpecPaths == Init /\ [][NextPaths]_vars

\* the rules whose filters are rendered
CreateRendered ==
    /\ ~Called(made)
    /\ \E p \in PatternRules \cup {Written(e) : e \in OddRules} : Create(p)

\* text = str(filter)
StrCall ==
    /\ Returned(made)
    /\ text = NoText
    /\ \E order \in (IF made.val.kind = "ExtensionsFilter"
                     THEN ExtOrders(made.val) ELSE {<<>>}) :
           text' = Str(made.val, order)
    /\ UNCHANGED <<parts, rule, made, cand, res, other, eqres, hres, threads, IS_WINDOWS>>

\* other = create_filter(text)
Recompile ==
    /\ text # NoText
    /\ ~Called(other)
    /\ other' = create_filter(text)
    /\ UNCHANGED <<parts, rule, made, cand, res, text, eqres, hres, threads, IS_WINDOWS>>

\* the filter with what hash(filter) leaves in its hash_cache
Hashed(self) ==
    IF Hash(self).exc = None THEN [self EXCEPT !.hash_cache = Hash(self).val]
    ELSE self

\* eqres = (filter == other); __eq__ calls hash() on both
EqCall ==
    /\ Returned(made)
    /\ Returned(other)
    /\ ~Called(eqres)
    /\ eqres' = Eq(made.val, other.val)
    /\ IF other.val.kind = made.val.kind
       THEN /\ made' = [made EXCEPT !.val = Hashed(made.val)]
            /\ other' = [other EXCEPT !.val = Hashed(other.val)]
       ELSE UNCHANGED <<made, other>>
    /\ UNCHANGED <<parts, rule, cand, res, text, hres, threads, IS_WINDOWS>>

\* hres = hash(filter)
HashCall ==
    /\ Returned(made)
    /\ ~Called(hres)
    /\ hres' = Hash(made.val)
    /\ made' = [made EXCEPT !.val = Hashed(made.val)]
    /\ UNCHANGED <<parts, rule, cand, res, text, other, eqres, threads, IS_WINDOWS>>

NextRender == CreateRendered \/ StrCall \/ Recompile \/ EqCall \/ HashCall

\* a rule is compiled and the filter rendered by str(), the text compiled
\* again, the two filters compared and the filter hashed
SpecRender == Init /\ [][NextRender]_vars

\* the rules whose filters are compared with each other: every variant,
\* with each of its flags set and not set
PairRules ==
    {Parts(sg, tags, <<"t", "e", "s", "t">>) :
        sg \in {<<>>, <<"-", " ">>}, tags \in {<<>>, <<Tag("case")>>}}
    \cup
    {Parts(<<>>, tags, <<"t", "?", "s", "t">>) :
        tags \in {<<>>, <<Tag("case")>>, <<Tag("nodrive")>>}}
    \cup
    {Parts(<<>>, tags, <<"t", ".", "s", "t">>) :
        tags \in {<<Tag("regex")>>, <<Tag("regex"), Tag("case")>>}}
    \cup
    {Parts(sg, tags, <<".", "d", "o", "c">>) :
        sg \in {<<>>, <<"-", " ">>}, tags \in {<<Tag("ext")>>, <<Tag("ext"), Tag("case")>>}}
    \cup
    {Parts(<<>>, <<Tag("ext")>>, <<".", "b", "a", "k", ";", ".", "d", "o", "c">>),
     Parts(<<>>, <<Tag("ext")>>, <<".", "d", "o", "c", " ", ".", "b", "a", "k">>),
     Parts(<<>>, <<Tag("attr")>>, <<"d", "i", "r">>),
     Parts(<<>>, <<Tag("attr_all")>>, <<"d", "i", "r">>),
     Parts(<<"-", " ">>, <<Tag("attr")>>, <<"d", "i", "r">>),
     Parts(<<>>, <<Tag("attr")>>, <<"d", "i", "r", " ", "!", "h", "i", "d", "d", "e", "n">>)}

CreatePair == ~Called(made) /\ \E p \in PairRules : Create(p)

\* other = create_filter(expression), for the rule of a second filter
CreateOther ==
    /\ Returned(made)
    /\ ~Called(other)
    /\ \E q \in PairRules : other' = create_filter(RuleOf(q))
    /\ UNCHANGED <<parts, rule, made, cand, res, text, eqres, hres, threads, IS_WINDOWS>>

\* one match call of the first filter
MatchPair ==
    /\ Returned(made)
    /\ ~Called(res)
    /\ DoMatch(<<"d", "i", "r", "/", "t", "e", "s", "t", ".", "d", "o", "c">>,
               Readable({"DIRECTORY"}))

NextPairs == CreatePair \/ CreateOther \/ MatchPair \/ StrCall \/ EqCall \/ HashCall

\* two rules are compiled; the first filter is asked about a candidate,
\* rendered, hashed and compared with the second, in any order
SpecPairs == Init /\ [][NextPairs]_vars

\* __hash__ run by two threads on one filter.  A thread can be switched
\* out between two reads or writes of self.hash_cache: __hash__ is the test
\* "self.hash_cache is None", the computation of the hash, the assignment
\* to self.hash_cache and the read of "return self.hash_cache".
\* "if self.hash_cache is None:", read by thread t
HashEnter(t) ==
    /\ Returned(made)
    /\ threads[t].pc = "idle"
    /\ threads' = [threads EXCEPT ![t].pc =
                       IF made.val.hash_cache = NoHash THEN "compute" ELSE "return"]
    /\ UNCHANGED <<parts, rule, made, cand, res, text, other, eqres, hres, IS_WINDOWS>>

\* hash((...)), computed by thread t: the value, or the exception that
\* ends the call
HashCompute(t) ==
    /\ threads[t].pc = "compute"
    /\ threads' = [threads EXCEPT ![t] =
                       IF HashTuple(made.val).exc = None
                       THEN [pc |-> "write", computed |-> HashTuple(made.val).val,
                             out |-> NotCalled]
                       ELSE [pc |-> "done", computed |-> NoHash,
                             out |-> HashTuple(made.val)]]
    /\ UNCHANGED <<parts, rule, made, cand, res, text, other, eqres, hres, IS_WINDOWS>>

\* HashWrite that writes a value of the thread's own
HashWriteOwn(t) ==
    /\ threads[t].pc = "write"
    /\ made' = [made EXCEPT !.val.hash_cache = <<t>> \o threads[t].computed]
    /\ threads' = [threads EXCEPT ![t].pc = "return"]
    /\ UNCHANGED <<parts, rule, cand, res, text, other, eqres, hres, IS_WINDOWS>>

\* "self.hash_cache = ...", written by thread t
HashWrite(t) ==
    /\ threads[t].pc = "write"
    /\ made' = [made EXCEPT !.val.hash_cache = threads[t].computed]
    /\ threads' = [threads EXCEPT ![t].pc = "return"]
    /\ UNCHANGED <<parts, rule, cand, res, text, other, eqres, hres, IS_WINDOWS>>

\* "return self.hash_cache", read by thread t
HashReturn(t) ==
    /\ threads[t].pc = "return"
    /\ threads' = [threads EXCEPT ![t].pc = "done",
                                  ![t].out = Return(made.val.hash_cache)]
    /\ UNCHANGED <<parts, rule, made, cand, res, text, other, eqres, hres, IS_WINDOWS>>

NextThreads ==
    \/ CreatePair
    \/ \E t \in Threads : HashEnter(t)
    \/ \E t \in Threads : HashCompute(t)
    \/ \E t \in Threads : HashWrite(t)
    \/ \E t \in Threads : HashReturn(t)

\* a rule is compiled and two threads call hash(filter), their steps
\* interleaved in every way
SpecThreads == Init /\ [][NextThreads]_vars

\* Filter.norm_case on either platform:
\*     return os.path.normcase(s) if IS_WINDOWS else s.lower()
NormCase(is_windows, s) == IF is_windows THEN normcase(s) ELSE Lower(s)

\* the module loaded on Windows or on another platform, nothing called yet
InitCase ==
    /\ parts = Written(<<>>)
    /\ rule = <<>>
    /\ made = NotCalled
    /\ cand = NoCand
    /\ res = NotCalled
    /\ text = NoText
    /\ other = NotCalled
    /\ eqres = NotCalled
    /\ hres = NotCalled
    /\ threads = NoThreads
    /\ IS_WINDOWS \in BOOLEAN

\* res = Filter.norm_case(s)
NormCaseCall ==
    /\ ~Called(res)
    /\ \E s \in PathCandidates \cup Patterns :
           /\ cand' = [path |-> s, file_attr |-> NotRead]
           /\ res' = Return(NormCase(IS_WINDOWS, s))
    /\ UNCHANGED <<parts, rule, made, text, other, eqres, hres, threads, IS_WINDOWS>>

NextCase == NormCaseCall

\* norm_case is applied to a string, on Windows and off Windows
SpecCase == InitCase /\ [][NextCase]_vars

(***************************************************************************)
(* The vocabulary of the properties: what the rule and the candidate are,  *)
(* said without the code under test.                                       *)
(***************************************************************************)
\* the tag t is in the list tags
HasTag(tags, t) == \E i \in DOMAIN tags : tags[i] = Tag(t)

\* the components of a path: the non-empty pieces between the separators of
\* what follows the drive
Components(path) ==
    SelectSeq(Split(Replace(splitdrive(path)[2], altsep, sep), sep),
              LAMBDA c : c # <<>>)

Dotless(comps) == \A i \in DOMAIN comps : comps[i] \notin {curdir, pardir}

LastK(comps, k) == SubSeq(comps, Len(comps) - k + 1, Len(comps))

\* the components as the filter compares them
FoldCase(comps, case_sensitive) ==
    IF case_sensitive THEN comps ELSE [i \in DOMAIN comps |-> Lower(comps[i])]

\* the rule is a tail rule: a relative, wildcard-free pattern without "."
\* and "..", with or without the case tag
TailRule ==
    /\ ~parts.written
    /\ parts.tags \in {<<>>, <<Tag("case")>>}
    /\ parts.pattern \in TailPatterns
    /\ Dotless(Components(parts.pattern))

\* the components of the pattern and of the candidate, as compared
PatternComps == FoldCase(Components(parts.pattern), HasTag(parts.tags, "case"))

CandComps == FoldCase(Components(cand.path), HasTag(parts.tags, "case"))

(***************************************************************************)
(* C1, under SpecRender                                                    *)
(***************************************************************************)
\* C1 (as stated): round trip.  Once the rendering str(filter) of a compiled
\* filter is compiled again, create_filter has returned a filter; once the
\* two filters are compared, == is True and both hold the same hash.
C1_RoundTrip ==
    /\ Called(other) => Returned(other)
    /\ Called(eqres) => /\ eqres = Return("True")
                        /\ made.val.hash_cache = other.val.hash_cache

(***************************************************************************)
(* C2, C3 and C4, under SpecPaths                                          *)
(***************************************************************************)
\* C2: a tail filter of a pattern of k components, asked about a candidate
\* of more than k components, returns True exactly when the last k
\* components of the candidate are the components of the pattern (both
\* lower-cased unless the rule has the case tag), and False otherwise.
C2_TailAlignment ==
    (Called(res) /\ TailRule /\ Len(CandComps) > Len(PatternComps))
    => res = Return(PyBool(LastK(CandComps, Len(PatternComps)) = PatternComps))

\* a pattern of two components has matched below a drive and a directory
C2_Witness ==
    /\ TailRule
    /\ rule = <<"d", "i", "r", "/", "t", "e", "s", "t">>
    /\ cand.path = <<"c", ":", "\\", "f", "o", "o", "\\", "D", "i", "r", "/",
                     "T", "e", "S", "t">>
    /\ res = Return("True")

\* C3 (as stated): match of a tail filter returns False, and raises
\* nothing, for a candidate of fewer components than the pattern.
C3_ShorterCandidate ==
    (Called(res) /\ TailRule /\ Len(CandComps) < Len(PatternComps))
    => res = Return("False")

\* C4 (as stated): a tail filter of two or more components returns True for
\* the candidate that is exactly the components of the pattern, relative,
\* absolute or below a drive.
C4_ExactCandidate ==
    (Called(res) /\ TailRule /\ Len(PatternComps) >= 2 /\ CandComps = PatternComps)
    => res = Return("True")

(***************************************************************************)
(* C5 to C10, under Spec                                                   *)
(***************************************************************************)
\* the pattern starts with a separator (a UNC prefix starts with two) or
\* with a drive
AbsolutePattern(pattern) ==
    \/ pattern[1] \in {sep, altsep}
    \/ Len(pattern) >= 2 /\ pattern[2] = colon

\* the rule is a plain rule: no tag but case and nodrive
PlainRule ==
    /\ ~parts.written
    /\ \A i \in DOMAIN parts.tags : parts.tags[i] \in {Tag("case"), Tag("nodrive")}

\* C5: create_filter raises ValueError "absolute path in filter", and gives
\* no filter, for every plain rule whose pattern starts with a separator, a
\* drive or a UNC prefix.
C5_AbsoluteRejected ==
    (Called(made) /\ PlainRule /\ AbsolutePattern(parts.pattern))
    => made = Raise("ValueError", "absolute path in filter")

\* a pattern below a drive has been refused
C5_Witness ==
    /\ PlainRule
    /\ parts.pattern = <<"c", ":", "t", "e", "s", "t">>
    /\ made = Raise("ValueError", "absolute path in filter")

\* the kind a tag names, of the four kinds that exclude each other
KindOf(tag) ==
    CASE tag \in {Tag("re"), Tag("regex")} -> "regex"
      [] tag = Tag("attr") -> "attr"
      [] tag = Tag("attr_all") -> "attr_all"
      [] tag = Tag("ext") -> "ext"
      [] OTHER -> "none"

KindsNamed(tags) == {KindOf(tags[i]) : i \in DOMAIN tags} \ {"none"}

\* a tag that is neither empty nor one of the seven tags
UnknownTag(tags) ==
    \E i \in DOMAIN tags : tags[i] # <<>> /\ tags[i] \notin KnownTags

\* C6: a property list that names more than one of the kinds regex (re or
\* regex), attr, attr_all and ext makes create_filter raise ValueError: for
\* the mix when every tag is known, for the unknown tag otherwise.  A list
\* that names at most one kind never raises for the mix.
C6_KindMix ==
    (Called(made) /\ ~parts.written)
    => IF Cardinality(KindsNamed(parts.tags)) > 1
       THEN made = Raise("ValueError",
                         IF UnknownTag(parts.tags) THEN "invalid property"
                         ELSE "invalid mix of filter properties")
       ELSE made.msg # "invalid mix of filter properties"

\* the short name of regex has been refused together with ext
C6_Witness ==
    /\ ~parts.written
    /\ parts.tags = <<Tag("ext"), Tag("re")>>
    /\ made = Raise("ValueError", "invalid mix of filter properties")

\* C7 (as stated): every property list that holds an unknown tag, of any
\* length, makes create_filter raise ValueError "invalid property".
C7_UnknownTagAnyLength ==
    (Called(made) /\ ~parts.written /\ UnknownTag(parts.tags))
    => made = Raise("ValueError", "invalid property")

\* C7 (amended): create_filter raises ValueError "invalid property" exactly
\* for the property lists of two characters or more (colons included) that
\* hold an unknown tag; a list that is one tag of one character is read as
\* the start of the pattern, which is refused as a pattern below a drive.
C7_UnknownTag ==
    (Called(made) /\ ~parts.written)
    => /\ made = Raise("ValueError", "invalid property")
          <=> (UnknownTag(parts.tags) /\ Len(Join(parts.tags, colon)) >= 2)
       /\ (Len(parts.tags) = 1 /\ Len(parts.tags[1]) = 1)
          => made = Raise("ValueError", "absolute path in filter")

\* an unknown tag of three characters has been refused
C7_Witness ==
    /\ ~parts.written
    /\ parts.tags = <<Tag("case"), <<"f", "o", "o">>>>
    /\ made = Raise("ValueError", "invalid property")

\* the variant the table gives for a list of tags and a pattern
ExpectedKind(tags, pattern) ==
    IF HasTag(tags, "ext") THEN "ExtensionsFilter"
    ELSE IF HasTag(tags, "attr") \/ HasTag(tags, "attr_all") THEN "WinAttrFilter"
    ELSE IF HasTag(tags, "re") \/ HasTag(tags, "regex") THEN "PathRegexFilter"
    ELSE IF \E i \in DOMAIN pattern : pattern[i] \in {"*", "?", "["}
    THEN "PathShellFilter"
    ELSE "PathTailFilter"

\* C8: the filter create_filter returns is of the variant the table gives
\* for the tags and the pattern of the rule; an attribute filter matches
\* all exactly for attr_all; the other variants are case sensitive exactly
\* when the case tag is present; a regex or a shell-wildcard filter has
\* nodrive exactly when the nodrive tag is present.
C8_VariantTable ==
    (Returned(made) /\ ~parts.written)
    => /\ made.val.kind = ExpectedKind(parts.tags, parts.pattern)
       /\ IF made.val.kind = "WinAttrFilter"
          THEN made.val.match_all = HasTag(parts.tags, "attr_all")
          ELSE made.val.case_sensitive = HasTag(parts.tags, "case")
       /\ made.val.kind \in {"PathRegexFilter", "PathShellFilter"}
          => made.val.nodrive = HasTag(parts.tags, "nodrive")

\* a wildcard pattern with both flags has given a shell-wildcard filter
C8_Witness ==
    /\ ~parts.written
    /\ parts.tags = <<Tag("case"), Tag("nodrive")>>
    /\ Returned(made)
    /\ made.val.kind = "PathShellFilter"
    /\ made.val.case_sensitive
    /\ made.val.nodrive

\* the offset of the first character of e that is no whitespace, Len(e)
\* when there is none
RECURSIVE FirstInk(_, _)
FirstInk(e, i) ==
    IF i < Len(e) /\ IsSpace(e[i + 1]) THEN FirstInk(e, i + 1) ELSE i

\* after leading whitespace, the rule starts with "-" and whitespace
MinusThenSpace(e) ==
    LET i == FirstInk(e, 0)
    IN  Len(e) >= i + 2 /\ e[i + 1] = "-" /\ IsSpace(e[i + 2])

\* the same, and something that is no whitespace follows
MinusThenPattern(e) ==
    /\ MinusThenSpace(e)
    /\ FirstInk(e, FirstInk(e, 0) + 1) < Len(e)

OtherSign(sign) == IF sign = <<"-", " ">> THEN <<"+", " ">> ELSE <<"-", " ">>

\* C10: what match does for a candidate is what the filter of the same rule
\* with the other sign does for it.
C10_SignBlindMatch ==
    (Called(res) /\ ~parts.written /\ parts.sign # <<>>)
    => LET flip == create_filter(RuleText(OtherSign(parts.sign), parts.tags,
                                          parts.pattern))
       IN  /\ Returned(flip)
           /\ flip.val.inclusive # made.val.inclusive
           /\ res = Match(flip.val, cand.path, cand.file_attr)

\* an exclusive shell-wildcard filter has matched a candidate
C10_Witness ==
    /\ ~parts.written
    /\ parts.sign = <<"-", " ">>
    /\ Returned(made)
    /\ made.val.kind = "PathShellFilter"
    /\ ~made.val.inclusive
    /\ res = Return("True")

(***************************************************************************)
(* C11 to C13, under SpecPaths                                             *)
(***************************************************************************)
\* the normal form of a candidate without "." and "..": its drive, a
\* separator when it has a root, and its components joined by separators
NormalForm(path) ==
    Replace(splitdrive(path)[1], altsep, sep)
    \o (IF LeadingSep(splitdrive(path)[2]) THEN <<sep>> ELSE <<>>)
    \o Join(Components(path), sep)

\* a text as the filter of the rule compares it: lower-cased unless the
\* rule has the case tag
Folded(s) == IF HasTag(parts.tags, "case") THEN s ELSE Lower(s)

\* the rule is a shell-wildcard rule: a relative pattern with "*" or "?"
\* and no character class, with no tag but case and nodrive
ShellRule ==
    /\ ~parts.written
    /\ \A i \in DOMAIN parts.tags : parts.tags[i] \in {Tag("case"), Tag("nodrive")}
    /\ \E i \in DOMAIN parts.pattern : parts.pattern[i] \in {"*", "?"}
    /\ \A i \in DOMAIN parts.pattern : parts.pattern[i] # "["
    /\ ~AbsolutePattern(parts.pattern)

\* the offsets of s at which the first k characters of the glob pattern pat
\* can end, when they start at offset 0: "*" takes any characters, "?" takes
\* one, another character takes itself
RECURSIVE GlobEnds(_, _, _)
GlobEnds(pat, s, k) ==
    IF k = 0 THEN {0}
    ELSE LET before == GlobEnds(pat, s, k - 1)
         IN  IF pat[k] = "*"
             THEN {j \in 0..Len(s) : \E i \in before : i <= j}
             ELSE {i + 1 : i \in {h \in before :
                                     /\ h < Len(s)
                                     /\ pat[k] = "?" \/ s[h + 1] = pat[k]}}

\* the glob pattern takes the whole of s
GlobWhole(pat, s) == Len(s) \in GlobEnds(pat, s, Len(pat))

\* the pattern and the candidate of a shell-wildcard rule, as compared
GlobPattern == Folded(Replace(parts.pattern, altsep, sep))

GlobCand == Folded(NormalForm(cand.path))

\* C11: a shell-wildcard filter returns True exactly when the glob pattern
\* takes the whole normal form of the candidate, drive and leading
\* directories included (both lower-cased unless the rule has the case
\* tag).  t?st matches test and neither tst, dir\test nor c:\dir\test;
\* */dir/t?st matches c:\foo\dir\test and \dir\test and neither dir\test
\* nor c:\foo\_dir\test.
C11_ShellWhole ==
    (Called(res) /\ ShellRule)
    => /\ res = Return(PyBool(GlobWhole(GlobPattern, GlobCand)))
       /\ (parts.tags = <<>> /\ parts.pattern = <<"t", "?", "s", "t">>)
          => /\ GlobCand = <<"t", "e", "s", "t">> => res = Return("True")
             /\ GlobCand \in {<<"t", "s", "t">>,
                              <<"d", "i", "r", "\\", "t", "e", "s", "t">>,
                              <<"c", ":", "\\", "d", "i", "r", "\\", "t", "e", "s", "t">>}
                => res = Return("False")
       /\ (parts.tags = <<>>
           /\ parts.pattern = <<"*", "/", "d", "i", "r", "/", "t", "?", "s", "t">>)
          => /\ GlobCand \in {<<"c", ":", "\\", "f", "o", "o", "\\", "d", "i", "r", "\\",
                                "t", "e", "s", "t">>,
                              <<"\\", "d", "i", "r", "\\", "t", "e", "s", "t">>}
                => res = Return("True")
             /\ GlobCand \in {<<"d", "i", "r", "\\", "t", "e", "s", "t">>,
                              <<"c", ":", "\\", "f", "o", "o", "\\", "_", "d", "i", "r",
                                "\\", "t", "e", "s", "t">>}
                => res = Return("False")

\* */dir/t?st has matched a candidate below a drive and a directory
C11_Witness ==
    /\ ShellRule
    /\ parts.pattern = <<"*", "/", "d", "i", "r", "/", "t", "?", "s", "t">>
    /\ cand.path = <<"c", ":", "\\", "f", "o", "o", "\\", "d", "i", "r", "\\",
                     "T", "e", "S", "t", "\\">>
    /\ res = Return("True")

\* C12 (as stated): the filter of dir/* returns True only for a candidate
\* whose last component has dir as its parent, and returns True for
\* dir\test: "*" takes no separator.
C12_StarStaysInComponent ==
    (Called(res) /\ ShellRule /\ parts.pattern = <<"d", "i", "r", "/", "*">>)
    => /\ res = Return("True")
          => /\ Len(CandComps) >= 2
             /\ CandComps[Len(CandComps) - 1] = <<"d", "i", "r">>
       /\ GlobCand = <<"d", "i", "r", "\\", "t", "e", "s", "t">>
          => res = Return("True")

\* C13 (as stated): a shell-wildcard filter compiled with the nodrive tag
\* does for a candidate that carries a drive what it does for the same
\* candidate without its drive.
C13_NoDriveStripsDrive ==
    (/\ Called(res)
     /\ ShellRule
     /\ HasTag(parts.tags, "nodrive")
     /\ splitdrive(cand.path)[1] # <<>>)
    => /\ made.val.nodrive
       /\ res = Match(made.val, splitdrive(cand.path)[2], NotRead)

(***************************************************************************)
(* C14, under Spec                                                         *)
(***************************************************************************)
\* the rule is a regex rule: the tag re or regex, and no other tag but
\* case, nodrive and the empty tag
RegexRule ==
    /\ ~parts.written
    /\ HasTag(parts.tags, "re") \/ HasTag(parts.tags, "regex")
    /\ \A i \in DOMAIN parts.tags :
           parts.tags[i] \in {Tag("re"), Tag("regex"), Tag("case"), Tag("nodrive"), <<>>}

\* the offsets of s at which the regular expression pat can end when it
\* starts at offset 0: at is the set of the offsets reached once the first
\* p characters of pat are read.  An item is a character, "." or an escaped
\* character, and may be starred; "^" holds at offset 0 and "$" at the end
RECURSIVE RegexEnds(_, _, _, _)
RegexEnds(pat, s, p, at) ==
    IF p = Len(pat) THEN at
    ELSE IF pat[p + 1] = "^" THEN RegexEnds(pat, s, p + 1, at \cap {0})
    ELSE IF pat[p + 1] = "$" THEN RegexEnds(pat, s, p + 1, at \cap {Len(s)})
    ELSE LET w == IF pat[p + 1] = "\\" THEN 2 ELSE 1
             takes(x) == IF w = 1 /\ pat[p + 1] = "." THEN TRUE ELSE x = pat[p + w]
         IN  IF p + w < Len(pat) /\ pat[p + w + 1] = "*"
             THEN RegexEnds(pat, s, p + w + 1,
                      {j \in 0..Len(s) :
                          \E i \in at : i <= j /\ \A h \in (i + 1)..j : takes(s[h])})
             ELSE RegexEnds(pat, s, p + w,
                      {i + 1 : i \in {h \in at : h < Len(s) /\ takes(s[h + 1])}})

\* the expression matches a prefix of s
RegexPrefix(pat, s) == RegexEnds(pat, s, 0, {0}) # {}

Suffixes(pattern) ==
    LET pieces == Split(Replace(Replace(pattern, " ", ";"), "\t", ";"), ";")
    IN  {pieces[i] : i \in DOMAIN pieces} \ {<<>>}

\* the base name of a path: what follows its last separator, or its drive
NameOf(path) ==
    LET pieces == Split(Replace(splitdrive(path)[2], altsep, sep), sep)
    IN  pieces[Len(pieces)]

\* suffix is a proper suffix of name
ProperSuffix(suffix, name) ==
    /\ Len(name) > Len(suffix)
    /\ SubSeq(name, Len(name) - Len(suffix) + 1, Len(name)) = suffix

\* the rule is an ext rule: the tag ext, and no other tag but case
ExtRule ==
    /\ ~parts.written
    /\ HasTag(parts.tags, "ext")
    /\ \A i \in DOMAIN parts.tags : parts.tags[i] \in {Tag("ext"), Tag("case"), <<>>}

\* the candidate holds what the pattern of the rule asks for, pattern and
\* candidate taken as the filter compares them (lower-cased unless the rule
\* has the case tag): the last components for a tail rule, the whole path
\* for a shell-wildcard rule, a prefix for a regex rule, a proper suffix of
\* the base name for an ext rule
Compares ==
    IF TailRule
    THEN /\ Len(CandComps) >= Len(PatternComps)
         /\ LastK(CandComps, Len(PatternComps)) = PatternComps
    ELSE IF ShellRule THEN GlobWhole(GlobPattern, GlobCand)
    ELSE IF RegexRule
    THEN RegexPrefix(Folded(parts.pattern), Folded(NormalForm(cand.path)))
    ELSE \E suffix \in Suffixes(parts.pattern) :
             ProperSuffix(Folded(suffix), Folded(NameOf(cand.path)))

\* the rule is one whose comparison Compares states
ComparedRule ==
    \/ TailRule
    \/ ShellRule
    \/ RegexRule /\ ~HasTag(parts.tags, "nodrive")
    \/ ExtRule

\* what the filter of the rule with its pattern in lower case does for the
\* candidate in lower case
LowerCaseResult ==
    Match(create_filter(RuleText(parts.sign, parts.tags, Lower(parts.pattern))).val,
          Lower(cand.path), NotRead)

\* without the case tag, match does for a candidate what the filter of the
\* lower-cased pattern does for the lower-cased candidate: the letter case
\* of neither changes the result
CaseBlind ==
    (Called(res) /\ ~parts.written /\ ~HasTag(parts.tags, "case"))
    => res = LowerCaseResult

C16_RegexNoDriveAbsolute ==
    /\ (/\ Called(made)
        /\ RegexRule
        /\ HasTag(parts.tags, "nodrive")
        /\ AbsolutePattern(parts.pattern))
       => made.exc = "ValueError"
    /\ (/\ Returned(made)
        /\ made.val.kind = "PathRegexFilter"
        /\ made.val.nodrive)
       => ~AbsolutePattern(made.val.pattern)

(***************************************************************************)
(* C17, under SpecPaths                                                    *)
(***************************************************************************)
\* C17: an extension filter returns True exactly when one of its stored
\* suffixes is a proper suffix of the base name of the candidate (what
\* follows its last separator; both lower-cased unless the rule has the
\* case tag), whatever the directories of the candidate are.  The stored
\* suffixes are the ones the pattern lists, and a file whose whole name is
\* the suffix of the filter, .doc for ext: .doc, does not match.
C17_ExtProperSuffix ==
    (Called(res) /\ ExtRule)
    => /\ made.val.ext = {Folded(suffix) : suffix \in Suffixes(parts.pattern)}
       /\ res = Return(PyBool(\E suffix \in made.val.ext :
                                  ProperSuffix(suffix, Folded(NameOf(cand.path)))))
       /\ (/\ made.val.ext = {<<".", "d", "o", "c">>}
           /\ NameOf(cand.path) = <<".", "d", "o", "c">>)
          => res = Return("False")

\* the filter of ext: .doc has refused a file named .doc below a drive and
\* two directories
C17_Witness ==
    /\ ExtRule
    /\ parts.pattern = <<".", "d", "o", "c">>
    /\ cand.path = <<"c", ":", "\\", "f", "o", "o", "\\", "d", "i", "r", "\\",
                     ".", "d", "o", "c">>
    /\ res = Return("False")

(***************************************************************************)
(* C18, under Spec                                                         *)
(***************************************************************************)
\* the suffixes of an ext pattern listed in the reverse order and then once
\* more, separated by ";"
Relisted(pattern) ==
    LET pieces == Split(pattern, ";")
        n == Len(pieces)
    IN  Join([i \in 1..n |-> pieces[n + 1 - i]] \o pieces, ";")

\* C18 (as stated): an ext rule whose pattern lists no suffix makes
\* create_filter raise ValueError, so that every extension filter holds at
\* least one suffix; and the filter of an ext rule equals the filter of
\* the rule that lists the same suffixes in another order and twice.
C18_ExtNeverEmpty ==
    /\ (Called(made) /\ ExtRule /\ Suffixes(parts.pattern) = {})
       => made.exc = "ValueError"
    /\ (Returned(made) /\ made.val.kind = "ExtensionsFilter")
       => made.val.ext # {}
    /\ (Returned(made) /\ ExtRule)
       => Eq(made.val,
             create_filter(RuleText(parts.sign, parts.tags,
                                    Relisted(parts.pattern))).val)
          = Return("True")

(***************************************************************************)
(* C19 and C20, under SpecPairs                                            *)
(***************************************************************************)
\* the fields of a filter that construction sets: all but hash_cache
Structure(self) == [self EXCEPT !.hash_cache = NoHash]

\* two filters of the same variant with the same inclusive flag, the same
\* pattern (suffix set, attribute masks) and the same flags
SameStructure(self, that) ==
    /\ self.kind = that.kind
    /\ Structure(self) = Structure(that)

\* C19 (as stated): == returns True exactly for two filters of the same
\* variant that have the same inclusive flag, the same pattern and the same
\* flags, and False otherwise; two filters of one variant have the same
\* hash exactly when == is True.
C19_StructuralEquality ==
    /\ Called(eqres)
       => eqres = Return(PyBool(SameStructure(made.val, other.val)))
    /\ (Called(eqres) /\ made.val.kind = other.val.kind)
       => /\ Returned(Hash(made.val))
          /\ Returned(Hash(other.val))
          /\ (Hash(made.val).val = Hash(other.val).val)
             <=> SameStructure(made.val, other.val)

\* C20 (as stated): hash(filter) and filter == other, for two filters of
\* one variant, return and raise nothing; once hash(filter) has returned a
\* value, a call of hash in any later state returns that value.
C20_HashNeverRaises ==
    /\ Called(hres) => /\ Returned(hres)
                       /\ Hash(made.val) = hres
    /\ (Called(eqres) /\ made.val.kind = other.val.kind) => Returned(eqres)

(***************************************************************************)
(* C21, under SpecPairs                                                    *)
(***************************************************************************)
\* C21: a match call writes no field of the filter; no call writes a field
\* other than hash_cache, and hash_cache is written by hash and == only;
\* so, in every state after a match call, whatever str, hash and == calls
\* came before or after it, match with the same candidate returns what the
\* call returned.
C21_MatchFrame ==
    /\ [](Called(res) => Match(made.val, cand.path, cand.file_attr) = res)
    /\ [][/\ res' # res => made' = made
          /\ Returned(made)
             => /\ Returned(made')
                /\ Structure(made'.val) = Structure(made.val)
                /\ made' # made => (hres' # hres \/ eqres' # eqres)]_vars

\* match has returned and hash has then written hash_cache
C21_Witness ==
    /\ Called(res)
    /\ Returned(hres)
    /\ Called(eqres)
    /\ text # NoText
    /\ made.val.hash_cache # NoHash
    /\ made.val.kind = "ExtensionsFilter"
    /\ res = Return("True")

(***************************************************************************)
(* C22, under Spec                                                         *)
(***************************************************************************)
\* e without its leading and its trailing whitespace
RECURSIVE Strip(_)
Strip(e) ==
    IF e = <<>> THEN e
    ELSE IF IsSpace(e[1]) THEN Strip(Tail(e))
    ELSE IF IsSpace(e[Len(e)]) THEN Strip(SubSeq(e, 1, Len(e) - 1))
    ELSE e

\* e without the sign it starts with, if any
Unsigned(e) ==
    IF e # <<>> /\ e[1] \in {"+", "-"} /\ (Len(e) = 1 \/ IsSpace(e[2]))
    THEN Strip(Tail(e)) ELSE e

\* the rule has no pattern text: nothing, or a property list, is left of
\* it without whitespace around it and without its sign
NoPatternText(e) ==
    LET u == Unsigned(Strip(e))
    IN  \/ u = <<>>
        \/ /\ Len(u) >= 3
           /\ u[Len(u)] = colon
           /\ \A i \in DOMAIN u : IsPropChar(u[i])

\* C22 (as stated): create_filter raises ValueError, and gives no filter,
\* for every rule without pattern text: the empty line, a line of
\* whitespace, a line made of a sign, of a property list or of both.
C22_NoPatternRefused ==
    (Called(made) /\ NoPatternText(rule)) => made.exc = "ValueError"

(***************************************************************************)
(* C23, under SpecThreads                                                  *)
(***************************************************************************)
\* what hash(filter) does when one thread calls it on the filter as
\* construction left it
HashAlone == Hash(Structure(made.val))

\* C23: when two threads call hash on a filter whose hash_cache is unset,
\* in every interleaving of their test, their computation, their write and
\* their read of hash_cache, each call ends as the call of one thread
\* alone ends, so both return the same value (for a regex filter, whose
\* hash raises, both raise and hash_cache stays unset); hash_cache holds
\* nothing or that value, and once it holds the value it keeps it.
C23_ConcurrentHash ==
    /\ [](Returned(made)
          => /\ \A t \in Threads :
                    threads[t].pc = "done" => threads[t].out = HashAlone
             /\ made.val.hash_cache # NoHash
                => /\ Returned(HashAlone)
                   /\ made.val.hash_cache = HashAlone.val)
    /\ [][(Returned(made) /\ made.val.hash_cache # NoHash)
          => made'.val.hash_cache = made.val.hash_cache]_vars

\* both threads have found hash_cache unset, both have written it, and both
\* calls have returned the same value
C23_Witness ==
    /\ Returned(made)
    /\ made.val.kind = "PathShellFilter"
    /\ \A t \in Threads :
           /\ threads[t].pc = "done"
           /\ threads[t].computed # NoHash
           /\ threads[t].out = Return(made.val.hash_cache)

(***************************************************************************)
(* C24, under SpecCase                                                     *)
(***************************************************************************)
\* C24: off Windows norm_case is the identity, norm_case(s) = s for every
\* string s; on Windows it is os.path.normcase, which turns '/' into '\'
\* and lowers the letters.
C24_IdentityOffWindows ==
    Called(res)
    => res = Return(IF IS_WINDOWS
                    THEN Lower(Replace(cand.path, "/", "\\"))
                    ELSE cand.path)

(***************************************************************************)
(* C25, under Spec                                                         *)
(***************************************************************************)
\* where the components of the candidate p begin: after its drive
DriveLen(p) == Len(splitdrive(p)[1])

\* p with the text ins put in after its first k characters
Inserted(p, k, ins) == SubSeq(p, 1, k) \o ins \o SubSeq(p, k + 1, Len(p))

\* p with one or two separators more at its end
TrailedForms(p) == {p \o <<sep>>, p \o <<altsep>>, p \o <<sep, sep>>}

\* p with one of its separators doubled: a separator after the drive, and
\* not the first character of p (two separators at the start make a UNC
\* path of it)
DoubledForms(p) ==
    {Inserted(p, k, <<sep>>) :
        k \in {i \in 2..Len(p) : i > DriveLen(p) /\ p[i] \in {sep, altsep}}}

\* p with a '.' component put in: after a separator that follows the drive,
\* or in front of the first component of a relative path
DottedForms(p) ==
    {Inserted(p, k, <<".", sep>>) :
        k \in {i \in DriveLen(p)..Len(p) :
                  IF i = DriveLen(p)
                  THEN p[i + 1] \notin {sep, altsep}
                  ELSE p[i] \in {sep, altsep}}}

OtherForms(p) == TrailedForms(p) \cup DoubledForms(p) \cup DottedForms(p)

AttrRule ==
    /\ ~parts.written
    /\ HasTag(parts.tags, "attr") \/ HasTag(parts.tags, "attr_all")

\* the words of s: its longest pieces without whitespace
Words(s) ==
    {SubSeq(s, ij[1], ij[2]) :
        ij \in {p \in (1..Len(s)) \X (1..Len(s)) :
                   /\ p[1] <= p[2]
                   /\ \A m \in p[1]..p[2] : ~IsSpace(s[m])
                   /\ p[1] = 1 \/ IsSpace(s[p[1] - 1])
                   /\ p[2] = Len(s) \/ IsSpace(s[p[2] + 1])}}

\* the word w asks for a flag to be unset
Negated(w) == w[1] = "!"

\* the attribute name in the word w: w in lower case, without its "!"
NameIn(w) ==
    LET first == CHOOSE i \in 1..(Len(w) + 1) :
                     /\ \A m \in 1..(i - 1) : w[m] = "!"
                     /\ i = Len(w) + 1 \/ w[i] # "!"
    IN  Lower(SubSeq(w, first, Len(w)))

\* the flag that the name n stands for, "" when the name table has no n
FlagOf(n) ==
    IF \E i \in DOMAIN WIN_FILE_ATTRIBUTE : WIN_FILE_ATTRIBUTE[i][1] = n
    THEN (CHOOSE e \in {WIN_FILE_ATTRIBUTE[i] : i \in DOMAIN WIN_FILE_ATTRIBUTE} : e[1] = n)[2]
    ELSE ""

\* C26: every attribute filter has a desired mask and a not-desired mask
\* that share no flag and are not both empty; create_filter raises
\* ValueError for an attribute rule whose pattern names one flag, under any
\* of its aliases, once plain and once with "!", and for one whose pattern
\* has a name that is not in the name table.
C26_AttrMasks ==
    /\ (Returned(made) /\ made.val.kind = "WinAttrFilter")
       => /\ made.val.desired_attr \cap made.val.not_desired_attr = {}
          /\ made.val.desired_attr \cup made.val.not_desired_attr # {}
    /\ (Called(made) /\ AttrRule
          /\ \E v, w \in Words(parts.pattern) :
                 /\ ~Negated(v) /\ Negated(w)
                 /\ FlagOf(NameIn(v)) # "" /\ FlagOf(NameIn(v)) = FlagOf(NameIn(w)))
       => made.exc = "ValueError"
    /\ (Called(made) /\ AttrRule
          /\ \E w \in Words(parts.pattern) : FlagOf(NameIn(w)) = "")
       => made.exc = "ValueError"

\* an attribute filter with a flag in either mask, from a rule whose
\* pattern has one plain name and one with "!"
C26_Witness ==
    /\ Returned(made)
    /\ made.val.kind = "WinAttrFilter"
    /\ made.val.desired_attr = {"DIRECTORY"}
    /\ made.val.not_desired_attr = {"HIDDEN"}

(***************************************************************************)
(* C27, under Spec                                                         *)
(***************************************************************************)
\* the last match call was made on an attribute filter
AttrAsked == Called(res) /\ made.val.kind = "WinAttrFilter"

\* the call said that the candidate matches: True, or a non-zero int
SaidYes == res.exc = None /\ res.val \in {"True", "Truthy"}

\* the call said that the candidate does not match
SaidNo == res = Return("False")

\* the filter with the masks D and N asks for the attributes A: all of D
\* and none of N for attr_all, one of D or the lack of one of N for attr
AskedFor(A) ==
    IF made.val.match_all
    THEN made.val.desired_attr \subseteq A /\ made.val.not_desired_attr \cap A = {}
    ELSE made.val.desired_attr \cap A # {} \/ made.val.not_desired_attr \ A # {}

BitsTested ==
    IF cand.path[1] = "." THEN cand.file_attr.bits \cup {"HIDDEN"}
    ELSE cand.file_attr.bits

C28_DotNameHidden ==
    (AttrAsked /\ cand.file_attr.readable
        /\ made.val.desired_attr = {"HIDDEN"} /\ made.val.not_desired_attr = {}
        /\ NameOf(cand.path)[1] = ".")
    => SaidYes

(***************************************************************************)
(* C29, under Spec                                                         *)
(***************************************************************************)
\* C29: the assertions of the constructors hold for every rule, so that
\* create_filter gives a filter or raises ValueError (NotImplementedError
\* for an attribute rule off Windows), and never AssertionError.
C29_NoAssertionError ==
    Called(made) => made.exc \in {None, "ValueError", "NotImplementedError"}

(***************************************************************************)
(* C30, under SpecPaths                                                    *)
(***************************************************************************)
\* the last match call was made on a tail filter and has returned
TailAnswered ==
    Returned(made) /\ made.val.kind = "PathTailFilter" /\ Returned(res)

\* the trimmed candidate of the last match call
Trimmed == TailTrimmed(made.val, normpath(cand.path))

====
